---- MODULE Spec2Model ----
(***************************************************************************)
(* pr-sheriff: the GitHub data access layer (GitHubFetch over `gh api`),   *)
(* its file cache and its rate-limit backoff, as a state machine.          *)
(*                                                                         *)
(* One client call at a time (the class is used sequentially).  A call is  *)
(* suspended only where the code awaits the runner, so every action is the *)
(* code from one await of this.ghRunner(args) to the next: the cache       *)
(* lookup, the response parsing, the backoff decision, the page handling   *)
(* and the cache write all happen inside StartCall / RunnerReturns.        *)
(*                                                                         *)
(* Three more machines share the module: the processes that write and     *)
(* read one cache entry on a shared directory (fsys), one run of the       *)
(* reference graph builder over the client's four operations (build), and  *)
(* one call of the pure function extractReferencedNumbers on a text (doc), *)
(* and one call of splitHttpResponse on a stdout, character-wise (http).   *)
(***************************************************************************)
EXTENDS Integers, Sequences, FiniteSets, TLC

VARIABLES
    pc,        \* "idle": no client call in flight; "running": awaiting the runner
    call,      \* the client call in flight (or the last one): operation, page, url, ...
    cache,     \* the cache directory: key -> [text, mtime] for every file that exists
    now,       \* the clock, in seconds
    result,    \* how the last client call ended, and with what value
    obs,       \* what an observer of the call has seen: runner invocations, sleeps, ...
    writer,    \* for every cache file, the request shape of the call that wrote it
    fsys,      \* one cache entry on disk as concurrent processes see it: the
               \* directory, the files' contents, the writers and the readers
    build,     \* one run of buildReferenceGraph: where it is suspended, the
               \* graph so far, its local lists, the client calls it made and
               \* what the last of them returned
    doc,       \* one call of extractReferencedNumbers: the text and the result
    http       \* one call of the parseFn of #restRequestRaw: stdout and the result

vars == <<pc, call, cache, now, result, obs, writer, fsys, build, doc, http>>

----------------------------------------------------------------------------
(* Bounds of the model *)

MaxNumber == 2      \* issue / PR numbers and search queries are 1..MaxNumber
NPages == 2         \* the server holds pages 1..NPages of every list
MaxNow == 2         \* the clock runs 0..MaxNow
MaxRev == 2         \* a resource's payload has revisions 1..MaxRev on the server
MaxCalls == 2       \* client calls made one after the other in a run
NWriters == 2       \* processes that write one cache entry concurrently
MaxWrites == 2      \* writes of the entry they make between them
MaxParts == 4       \* words of the lexicon a text is made of
MaxRaw == 5         \* pieces a stdout is made of
ChunksPerFile == 2  \* write(2) calls it takes to write a file's text

(* Constructor options of GitHubFetch, fixed for the model *)

cacheTtlSeconds == 1
maxBackoffSeconds == 2

(* Program constants *)

MaxPages == 200     \* for (let page = 0; page < 200; page++)
MaxAttempts == 2    \* for (let attempt = 0; attempt < 2; attempt++)
perPage == 100

owner == "octo"
name == "hello"
repo == "octo/hello"

Numbers == 1..MaxNumber
Pages == 1..NPages

----------------------------------------------------------------------------
(* JavaScript values *)

Null == <<>>                      \* a nullable value: <<>> or <<x>>
Some(x) == <<x>>

JNull == [t |-> "null"]           \* JSON values
JObj(r) == [t |-> "obj", v |-> r]
JArr(s) == [t |-> "arr", v |-> s]
NoValue == [t |-> "undefined"]

\* JavaScript truthiness of a JSON value, as in `if (cached) return cached;`
Truthy(v) == v.t \notin {"null", "undefined"}

Min(a, b) == IF a <= b THEN a ELSE b
Max(a, b) == IF a >= b THEN a ELSE b

----------------------------------------------------------------------------
(* file_cache.mjs *)

\* JSON.stringify(parts, Object.keys(parts).sort()): an array replacer is a
\* whitelist of property names, and it is applied to nested objects too.  A
\* part is a scalar [t |-> "s", v] or a nested object [t |-> "o", v |-> record].
Scalar(x) == [t |-> "s", v |-> x]
Nested(r) == [t |-> "o", v |-> r]

StableStringify(parts) ==
    LET allowed == DOMAIN parts
    IN  [k \in allowed |->
            IF parts[k].t = "o"
            THEN Nested([f \in (DOMAIN parts[k].v) \cap allowed |-> parts[k].v[f]])
            ELSE parts[k]]

\* sha256Hex is taken to be collision-free: the key is the text it hashes.
sha256Hex(text) == [sha256 |-> text]

cacheKey(parts) == sha256Hex(StableStringify(parts))

\* What a cache file holds: the text JSON.stringify wrote.
JsonStringify(value) == [json |-> Some(value)]
CorruptText == [json |-> Null]
\* variant: an unparseable file yields a value
JsonParseLenient(text) == IF text.json = Null THEN JArr(<<>>) ELSE text.json[1]

\* JSON.parse of a file's text; a SyntaxError is caught by readJsonCache
JsonParseOrNull(text) == IF text.json = Null THEN JNull ELSE text.json[1]

\* variant: an entry lives one second longer
ExpiredLate(mtime, ttlSeconds, nowS) == (nowS - mtime) > ttlSeconds + 1

\* ageSeconds > ttlSeconds
Expired(mtime, ttlSeconds, nowS) == (nowS - mtime) > ttlSeconds

\* readJsonCache: null when the file is missing (statSync throws), older than
\* the TTL, or unparseable; otherwise the parsed value (which may be JSON null).
readJsonCache(files, key, ttlSeconds, nowS) ==
    IF key \notin DOMAIN files THEN JNull
    ELSE IF Expired(files[key].mtime, ttlSeconds, nowS) THEN JNull
    ELSE JsonParseOrNull(files[key].text)

\* writeJsonCache: temp file, then rename onto the entry path
writeJsonCache(files, key, value, nowS) ==
    [k \in (DOMAIN files) \cup {key} |->
        IF k = key THEN [text |-> JsonStringify(value), mtime |-> nowS]
        ELSE files[k]]

NoFiles == [k \in {} |-> [text |-> CorruptText, mtime |-> 0]]

\* the entry stored under a key, or null
Entry(files, key) == IF key \in DOMAIN files THEN Some(files[key]) ELSE Null

----------------------------------------------------------------------------
(* Request shapes: the `parts` each request helper hands to cacheKey *)

Endpoint(what, number) ==
    "/repos/" \o owner \o "/" \o name \o "/" \o what \o "/" \o ToString(number)

StageEndpoint(stage, op, arg) ==
    CASE stage = "rest" /\ op = "getPR" -> Endpoint("pulls", arg)
      [] stage = "rest" /\ op = "getIssue" -> Endpoint("issues", arg)
      [] stage = "issueComments" -> Endpoint("issues", arg) \o "/comments"
      [] stage = "reviewComments" -> Endpoint("pulls", arg) \o "/comments"
      [] stage = "search" -> "/search/issues"
      [] OTHER -> "graphql"

\* searchMergedPRs: q = "repo:<owner>/<name> is:pr is:merged <query>"
SearchQ(arg) == "repo:" \o repo \o " is:pr is:merged q" \o ToString(arg)

TimelineQuery == "query($owner,$name,$number,$cursor){...timelineItems...}"

\* #restRequest: {kind:'rest', method, endpoint, params: undefined, repo};
\* JSON.stringify leaves an undefined property out.
restParts(method, endpoint) ==
    [kind |-> Scalar("rest"), method |-> Scalar(method),
     endpoint |-> Scalar(endpoint), repo |-> Scalar(repo)]

\* #restPaginateArray: {kind:'rest-array', endpoint, params = {}, repo}
restArrayParts(endpoint) ==
    [kind |-> Scalar("rest-array"), endpoint |-> Scalar(endpoint),
     params |-> Nested([f \in {} |-> ""]), repo |-> Scalar(repo)]

\* #restPaginateSearch: {kind:'rest-search', endpoint, params: {q}, repo}
restSearchParts(endpoint, q) ==
    [kind |-> Scalar("rest-search"), endpoint |-> Scalar(endpoint),
     params |-> Nested([q |-> q]), repo |-> Scalar(repo)]

\* #graphqlPaginateNodes: {kind:'graphql', query, variables: {owner, name, number}, repo}
graphqlParts(query, number) ==
    [kind |-> Scalar("graphql"), query |-> Scalar(query),
     variables |-> Nested([owner |-> owner, name |-> name, number |-> number]),
     repo |-> Scalar(repo)]

PartsOf(stage, op, arg) ==
    CASE stage = "rest" -> restParts("GET", StageEndpoint(stage, op, arg))
      [] stage \in {"issueComments", "reviewComments"} ->
            restArrayParts(StageEndpoint(stage, op, arg))
      [] stage = "search" -> restSearchParts(StageEndpoint(stage, op, arg), SearchQ(arg))
      [] OTHER -> graphqlParts(TimelineQuery, arg)

Ops == {"getPR", "getIssue", "listPRComments", "getIssueTimeline", "searchMergedPRs"}

FirstStage(op) ==
    CASE op \in {"getPR", "getIssue"} -> "rest"
      [] op = "listPRComments" -> "issueComments"
      [] op = "searchMergedPRs" -> "search"
      [] OTHER -> "graphql"

----------------------------------------------------------------------------
(* Raw HTTP exchanges, as `gh api --include` prints them on stdout *)

\* A header's value: absent, a number, or text that is no number
HAbsent == [p |-> "absent"]
HNum(n) == [p |-> "num", n |-> n]
HJunk == [p |-> "junk"]

\* Number(h || 'NaN'): null stands for NaN
NumberOf(h) == IF h.p = "num" THEN Some(h.n) ELSE Null

\* The headers the client reads.  link is the Link header's comma-separated
\* parts, each <url>; rel="...", a url being the number of the page it names.
Headers(remaining, retryAfter, reset, link) ==
    [remaining |-> remaining, retryAfter |-> retryAfter, reset |-> reset, link |-> link]
NoHeaders == Headers(HAbsent, HAbsent, HAbsent, <<>>)

\* The text after the blank line: nothing, no JSON (a cut-off document), or JSON
TextEmpty == [b |-> "empty"]
TextInvalid == [b |-> "invalid"]
TextJson(v) == [b |-> "json", v |-> v]

\* stdout: head is the header block when a blank line ends it (null when the
\* output holds no blank line), text is what follows (all of stdout when head
\* is null).
Raw(head, text) == [head |-> head, text |-> text]
HeadBlock(status, headers) == Some([status |-> status, headers |-> headers])
EmptyStdout == Raw(Null, TextEmpty)

\* splitHttpResponse
splitHttpResponse(raw) ==
    IF raw.head = Null
    THEN [status |-> Null, headers |-> NoHeaders, bodyText |-> raw.text]
    ELSE [status |-> raw.head[1].status, headers |-> raw.head[1].headers,
          bodyText |-> raw.text]

\* bodyText.trim() ? JSON.parse(bodyText) : null; JSON.parse may throw
BodyParses(bodyText) == bodyText.b # "invalid"
BodyOf(bodyText) == IF bodyText.b = "json" THEN bodyText.v ELSE JNull

\* The parseFn of #restRequestRaw keeps the headers; the parseFn of
\* #graphqlPaginateNodes returns {status, body} only, and #executeWithBackoff
\* reads `parsed.headers || {}`.
RestParseFn(raw) ==
    LET s == splitHttpResponse(raw)
    IN  [threw |-> ~BodyParses(s.bodyText), status |-> s.status,
         headers |-> s.headers, body |-> BodyOf(s.bodyText)]

GraphqlParseFn(raw) ==
    LET s == splitHttpResponse(raw)
    IN  [threw |-> ~BodyParses(s.bodyText), status |-> s.status,
         headers |-> NoHeaders, body |-> BodyOf(s.bodyText)]

ParseFn(stage, raw) ==
    IF stage = "graphql" THEN GraphqlParseFn(raw) ELSE RestParseFn(raw)

\* parseLinkHeader: rel -> url, a later part overriding an earlier one
RECURSIVE parseLinkHeader(_)
parseLinkHeader(link) ==
    IF link = <<>> THEN [r \in {} |-> 0]
    ELSE LET rest == parseLinkHeader(SubSeq(link, 1, Len(link) - 1))
             part == link[Len(link)]
         IN  [r \in (DOMAIN rest) \cup {part.rel} |->
                 IF r = part.rel THEN part.url ELSE rest[r]]

\* rels.next, null when the header names no next page
NextUrl(headers) ==
    LET rels == parseLinkHeader(headers.link)
    IN  IF "next" \in DOMAIN rels THEN Some(rels["next"]) ELSE Null

\* variant: only server errors (5xx) count as failures
HttpErrorServerOnly(status) == status # Null /\ status[1] >= 500

\* variant: a response without a status is an error as well
HttpErrorOrNoStatus(status) == status = Null \/ status[1] >= 400

\* status && status >= 400
HttpError(status) == status # Null /\ status[1] >= 400

----------------------------------------------------------------------------
(* The server: what GitHub answers to the request in flight *)

\* A server lays the pages of a list out as a linked structure: srv[p] tells
\* whether page p announces a further page and which one (0: none).  REST
\* announces it in the Link header, GraphQL in pageInfo {hasNextPage, endCursor}.
PageInfos == [hasNextPage : BOOLEAN, endCursor : 0..NPages]
AllServers == [Pages -> PageInfos]
RestServers == {s \in AllServers : \A p \in Pages : s[p].hasNextPage <=> s[p].endCursor # 0}
\* a chain: every page announces a later page or none
IsChain(s) == \A p \in Pages : s[p].endCursor = 0 \/ s[p].endCursor > p
OnePage == [p \in Pages |-> [hasNextPage |-> FALSE, endCursor |-> 0]]

\* the pages a client that follows the announcements from page 1 comes to
RECURSIVE Walk(_, _, _)
Walk(s, p, seen) ==
    IF p \in seen THEN seen
    ELSE IF s[p].hasNextPage /\ s[p].endCursor # 0
         THEN Walk(s, s[p].endCursor, seen \cup {p})
         ELSE seen \cup {p}
\* servers that differ only in pages no client comes to are the same server
Canonical(s) ==
    \A p \in Pages \ Walk(s, 1, {}) : s[p] = [hasNextPage |-> FALSE, endCursor |-> 0]

ServersOf(stage) ==
    CASE stage = "rest" -> {OnePage}
      [] stage = "graphql" -> AllServers
      [] OTHER -> RestServers

\* The items of page p.  Comments carry their creation time: issue comments
\* 1, 3, ..., review comments 2, 3, ...
PageItems(stage, arg, p) ==
    CASE stage = "issueComments" ->
            <<[kind |-> "issue", of |-> arg, page |-> p, created_at |-> 2 * p - 1]>>
      [] stage = "reviewComments" ->
            <<[kind |-> "review", of |-> arg, page |-> p, created_at |-> p + 1]>>
      [] stage = "search" ->
            <<[kind |-> "pr", of |-> arg, page |-> p, created_at |-> p]>>
      [] OTHER ->
            <<[kind |-> "ClosedEvent", of |-> arg, page |-> p, created_at |-> p]>>

\* The page the request in flight asks for: the url (REST) or the cursor
\* (GraphQL; no cursor asks for the first page).
RequestedPage(c) ==
    IF c.stage = "graphql"
    THEN (IF c.cursor = Null THEN 1 ELSE c.cursor[1])
    ELSE c.url

\* endCursor as GraphQL returns it: null or the cursor naming a page
CursorOf(n) == IF n = 0 THEN Null ELSE Some(n)

\* The well-formed body of the answer to the request in flight
GoodBody(c, rev) ==
    LET p == RequestedPage(c)
    IN  CASE c.stage = "rest" ->
                JObj([number |-> c.arg, pull |-> (c.op = "getPR"), rev |-> rev])
          [] c.stage \in {"issueComments", "reviewComments"} ->
                JArr(PageItems(c.stage, c.arg, p))
          [] c.stage = "search" ->
                JObj([total_count |-> NPages, incomplete_results |-> (p # 1),
                      items |-> PageItems(c.stage, c.arg, p)])
          [] OTHER ->
                JObj([errors |-> <<>>,
                      timelineItems |-> Some([nodes |-> PageItems(c.stage, c.arg, p),
                                              pageInfo |-> [hasNextPage |-> c.srv[p].hasNextPage,
                                                            endCursor |-> CursorOf(c.srv[p].endCursor)]])])

\* A body of the wrong shape for the request, and a GraphQL errors body
WrongBody(c) ==
    IF c.stage \in {"issueComments", "reviewComments"}
    THEN JObj([message |-> "not a list"])
    ELSE JArr(<<>>)
ErrorsBody == JObj([errors |-> <<"NOT_FOUND">>, timelineItems |-> Null])
NoDataBody == JObj([errors |-> <<>>, timelineItems |-> Null])

\* The Link header of page p: rel="first" on later pages, rel="next" if announced
LinkOf(c) ==
    LET p == RequestedPage(c)
    IN  (IF p # 1 THEN <<[url |-> 1, rel |-> "first"]>> ELSE <<>>)
        \o (IF c.stage # "graphql" /\ c.srv[p].hasNextPage
            THEN <<[url |-> c.srv[p].endCursor, rel |-> "next"]>> ELSE <<>>)

\* A response class: what kind of answer the server gives.
\*   framed    the output has the blank line between headers and body
\*   status    the status line's number, null when it has none
\*   reset     x-ratelimit-reset, as seconds from now (null: no header)
\*   body      "good", "empty", "wrong", "errors", "nodata", "cut"
Class(framed, status, remaining, retryAfter, reset, body, rev) ==
    [framed |-> framed, status |-> status, remaining |-> remaining,
     retryAfter |-> retryAfter, reset |-> reset, body |-> body, rev |-> rev]

TextOf(c, cl) ==
    CASE cl.body = "good" -> TextJson(GoodBody(c, cl.rev))
      [] cl.body = "wrong" -> TextJson(WrongBody(c))
      [] cl.body = "errors" -> TextJson(ErrorsBody)
      [] cl.body = "nodata" -> TextJson(NoDataBody)
      [] cl.body = "cut" -> TextInvalid
      [] OTHER -> TextEmpty

\* what `gh api --include` prints for an answer of class cl, run to its end
Output(c, cl, nowS) ==
    IF ~cl.framed THEN Raw(Null, TextOf(c, cl))
    ELSE Raw(HeadBlock(cl.status,
                       Headers(cl.remaining, cl.retryAfter,
                               IF cl.reset = Null THEN HAbsent ELSE HNum(nowS + cl.reset[1]),
                               IF cl.status = Some(200) THEN LinkOf(c) ELSE <<>>)),
             TextOf(c, cl))

----------------------------------------------------------------------------
(* gh_api_runner.mjs: defaultGhRunner *)

\* One run of the gh child process:
\*   how   "exit": it ends by itself with exit code `code` and output `out`;
\*         "timeout": the timer fires first; "overflow": pushChunk sees more
\*         than maxOutputBytes captured.  Both kill it with SIGKILL.
\*   cut   where a kill cuts stdout short
Child(how, code, out, cut) == [how |-> how, code |-> code, out |-> out, cut |-> cut]

Cuts == {"nothing", "inHeaders", "afterHeaders", "inBody"}

\* stdout as captured up to the kill
Truncate(out, cut) ==
    CASE cut = "nothing" -> EmptyStdout
      [] cut = "inHeaders" -> Raw(Null, IF out.head = Null THEN out.text ELSE TextInvalid)
      [] cut = "afterHeaders" -> Raw(out.head, IF out.head = Null THEN out.text ELSE TextEmpty)
      [] OTHER -> Raw(out.head, IF out.text = TextEmpty THEN TextEmpty ELSE TextInvalid)

\* child.on('close', (code) => resolve(code ?? 0)): a child killed by a
\* signal closes with code null
ExitCodeOf(child) == IF child.how = "exit" THEN child.code ELSE 0

defaultGhRunner(child) ==
    [exitCode |-> ExitCodeOf(child),
     stdout |-> IF child.how = "exit" THEN child.out ELSE Truncate(child.out, child.cut),
     timedOut |-> (child.how = "timeout")]

Killed(child) == child.how \in {"timeout", "overflow"}

----------------------------------------------------------------------------
(* #executeWithBackoff: one pass of its loop body *)

\* variant: only a timeout is fatal
IsFatalTimeoutOnly(res) == res.timedOut

\* res.timedOut, or res.exitCode !== 0 && !res.stdout
IsFatal(res) == res.timedOut \/ (res.exitCode # 0 /\ res.stdout = EmptyStdout)

\* variant: every 403 counts as rate-limited
IsRateLimitedAny403(parsed) == parsed.status \in {Some(429), Some(403)}

IsRateLimited(parsed) ==
    \/ parsed.status = Some(429)
    \/ parsed.status = Some(403) /\ parsed.headers.remaining = HNum(0)

\* retry-after if it is a number, else max(0, reset - now) if reset is a
\* number, else NaN (null)
WaitSeconds(headers, nowEpoch) ==
    LET retryAfter == NumberOf(headers.retryAfter)
        resetEpoch == NumberOf(headers.reset)
    IN  IF retryAfter # Null THEN retryAfter
        ELSE IF resetEpoch # Null THEN Some(Max(0, resetEpoch[1] - nowEpoch))
        ELSE Null

\* variant: the wait is not clamped
ClampWaitNone(waitSeconds) == waitSeconds

\* Math.min(waitSeconds, this.maxBackoffSeconds)
ClampWait(waitSeconds) == Min(waitSeconds, maxBackoffSeconds)

\* the last pass of the loop returns whatever it parsed
IsLastAttempt(attempt) == attempt = MaxAttempts - 1

NoParsed == [threw |-> TRUE, status |-> Null, headers |-> NoHeaders, body |-> JNull]

\* The outcome of one pass: throw, return parsed, or sleep and go round again
LoopPass(res, attempt, stage, nowEpoch) ==
    IF res.timedOut
    THEN [k |-> "throw", why |-> "gh timed out", parsed |-> NoParsed, sleep |-> <<>>]
    ELSE IF IsFatal(res)
    THEN [k |-> "throw", why |-> "gh failed", parsed |-> NoParsed, sleep |-> <<>>]
    ELSE LET parsed == ParseFn(stage, res.stdout) IN
      IF parsed.threw
      THEN [k |-> "throw", why |-> "SyntaxError", parsed |-> NoParsed, sleep |-> <<>>]
      ELSE IF ~IsRateLimited(parsed) \/ IsLastAttempt(attempt)
      THEN [k |-> "return", why |-> "", parsed |-> parsed, sleep |-> <<>>]
      ELSE LET waitSeconds == WaitSeconds(parsed.headers, nowEpoch) IN
        IF waitSeconds = Null
        THEN [k |-> "return", why |-> "", parsed |-> parsed, sleep |-> <<>>]
        ELSE [k |-> "retry", why |-> "", parsed |-> parsed,
              sleep |-> IF ClampWait(waitSeconds[1]) > 0
                        THEN <<ClampWait(waitSeconds[1]) * 1000>> ELSE <<>>]

----------------------------------------------------------------------------
(* The client: GitHubFetch *)

\* The machine an action works on: the variables a call may change.
Machine == [pc |-> pc, call |-> call, cache |-> cache, result |-> result,
            obs |-> obs, writer |-> writer]

NoCall ==
    [n |-> 0, op |-> "none", arg |-> 0, useCache |-> FALSE, srv |-> OnePage, at |-> 0,
     stage |-> "none", page |-> 0, url |-> 1, cursor |-> Null, out |-> <<>>,
     firstPage |-> Null, attempt |-> 0, issueComments |-> <<>>]

NoResult == [status |-> "none", value |-> NoValue, error |-> ""]

NoObs ==
    [fetched |-> FALSE,     \* this client call has invoked the runner
     log |-> <<>>,          \* the child runs of the request in flight (or the
                            \* call's last request), in order
     sleeps |-> <<>>,       \* the sleeps of that request: [ms, after]
     returned |-> Null,     \* what #executeWithBackoff returned for that request
     hits |-> <<>>,         \* cache hits of this call: [want, got] request shapes
     visited |-> <<>>,      \* the pages the current fetch has requested, in order
     before |-> NoFiles]    \* the cache as the current fetch found it

KeyOf(c) == cacheKey(PartsOf(c.stage, c.op, c.arg))

\* variant: a failing fetch stores the pages it has got so far
ThrowCachingPartial(m, err) ==
    [m EXCEPT !.pc = "idle",
              !.result = [status |-> "threw", value |-> NoValue, error |-> err],
              !.cache = IF m.call.useCache
                        THEN writeJsonCache(@, KeyOf(m.call), JArr(m.call.out), m.call.at)
                        ELSE @]

Throw(m, err) ==
    [m EXCEPT !.pc = "idle",
              !.result = [status |-> "threw", value |-> NoValue, error |-> err]]

Return(m, v) ==
    [m EXCEPT !.pc = "idle",
              !.result = [status |-> "ok", value |-> v, error |-> ""]]

\* variant: a list cut off at the page cap is not stored
WriteCacheUnlessCapped(m, value, nowS) ==
    IF m.call.useCache /\ m.call.page < MaxPages
    THEN [m EXCEPT
            !.cache = writeJsonCache(m.cache, KeyOf(m.call), value, nowS),
            !.writer = [k \in (DOMAIN m.writer) \cup {KeyOf(m.call)} |->
                          IF k = KeyOf(m.call)
                          THEN PartsOf(m.call.stage, m.call.op, m.call.arg)
                          ELSE m.writer[k]]]
    ELSE m

\* if (useCache) writeJsonCache({cacheDir, key, value})
WriteCache(m, value, nowS) ==
    IF m.call.useCache
    THEN [m EXCEPT
            !.cache = writeJsonCache(m.cache, KeyOf(m.call), value, nowS),
            !.writer = [k \in (DOMAIN m.writer) \cup {KeyOf(m.call)} |->
                          IF k = KeyOf(m.call)
                          THEN PartsOf(m.call.stage, m.call.op, m.call.arg)
                          ELSE m.writer[k]]]
    ELSE m

\* variant: tb.localeCompare(ta)
CompareReversed(ta, tb) == IF tb < ta THEN 0 - 1 ELSE IF ta = tb THEN 0 ELSE 1

\* ta.localeCompare(tb) on the created_at stamps: negative, zero or positive
Compare(ta, tb) == IF ta < tb THEN 0 - 1 ELSE IF ta = tb THEN 0 ELSE 1

\* Array.prototype.sort is stable: the elements come in ascending order of
\* their stamp, and the elements that compare equal keep their order.
RECURSIVE SortStamps(_, _)
SortStamps(items, stamps) ==
    IF stamps = {} THEN <<>>
    ELSE LET first == CHOOSE t \in stamps : \A u \in stamps : Compare(t, u) <= 0
             IsFirst(x) == Compare(x.created_at, first) = 0
         IN  SelectSeq(items, IsFirst) \o SortStamps(items, stamps \ {first})

SortByCreatedAt(items) ==
    SortStamps(items, {items[i].created_at : i \in DOMAIN items})

\* listPRComments' value
Comments(issueComments, reviewComments) ==
    [t |-> "comments", issueComments |-> issueComments, reviewComments |-> reviewComments,
     all |-> SortByCreatedAt(issueComments \o reviewComments)]

\* result.items of searchMergedPRs
ItemsOf(v) == IF v.t = "obj" /\ "items" \in DOMAIN v.v THEN JArr(v.v.items) ELSE NoValue

\* variant: the cache is looked up whatever useCache is
CacheHitAnyway(useCache, cached) == Truthy(cached)

\* the cache lookup that opens each request helper:
\*   if (useCache) { const cached = readJsonCache(...); if (cached) return cached; }
CacheHit(useCache, cached) == useCache /\ Truthy(cached)

RECURSIVE EnterStage(_, _, _), StageValue(_, _, _)

\* A request helper of the call is entered: served from the cache, or the
\* first request is set up.
EnterStage(m, stage, nowS) ==
    LET c == [m.call EXCEPT !.stage = stage, !.page = 0, !.url = 1, !.cursor = Null,
                            !.out = <<>>, !.firstPage = Null, !.attempt = 0]
        key == KeyOf(c)
        cached == readJsonCache(m.cache, key, cacheTtlSeconds, nowS)
        m1 == [m EXCEPT !.call = c, !.obs.before = m.cache, !.obs.visited = <<>>]
    IN  IF CacheHit(c.useCache, cached)
        THEN StageValue([m1 EXCEPT !.obs.hits =
                            Append(@, [want |-> PartsOf(c.stage, c.op, c.arg),
                                       got |-> m.writer[key]])],
                        cached, nowS)
        ELSE [m1 EXCEPT !.pc = "running"]

\* A request helper returns v to the client operation that called it.
StageValue(m, v, nowS) ==
    CASE m.call.stage = "issueComments" ->
            EnterStage([m EXCEPT !.call.issueComments = v.v], "reviewComments", nowS)
      [] m.call.stage = "reviewComments" ->
            Return(m, Comments(m.call.issueComments, v.v))
      [] m.call.stage = "search" -> Return(m, ItemsOf(v))
      [] OTHER -> Return(m, v)

\* variant: the loop test is page <= 200
LoopGoesOnInclusive(page) == page + 1 <= MaxPages

\* the loops run `for (let page = 0; page < 200; page++)`: after page number
\* `page` (from 0) another pass is made if page + 1 is below the cap
LoopGoesOn(page) == page + 1 < MaxPages

\* #restRequest, after #restRequestRaw returned
restRequest(m, parsed, nowS) ==
    IF HttpError(parsed.status) THEN Throw(m, "GitHub API error")
    ELSE StageValue(WriteCache(m, parsed.body, nowS), parsed.body, nowS)

\* variant: out.unshift(...body)
AccumulateFront(out, items) == items \o out

\* out.push(...body)
Accumulate(out, items) == out \o items

\* #restPaginateArray: one pass of the loop, and what follows the loop
restPaginateArray(m, parsed, nowS) ==
    IF HttpError(parsed.status) THEN Throw(m, "GitHub API error")
    ELSE IF parsed.body.t # "arr" THEN Throw(m, "Expected array response")
    ELSE LET out == Accumulate(m.call.out, parsed.body.v)
             next == NextUrl(parsed.headers)
         IN  IF next # Null /\ LoopGoesOn(m.call.page)
             THEN [m EXCEPT !.call.out = out, !.call.url = next[1],
                            !.call.page = @ + 1, !.call.attempt = 0]
             ELSE StageValue(WriteCache([m EXCEPT !.call.out = out, !.call.page = @ + 1],
                                        JArr(out), nowS),
                             JArr(out), nowS)

\* { ...firstPage, items }
WithItems(firstPage, items) ==
    JObj([f \in (DOMAIN firstPage.v) \cup {"items"} |->
            IF f = "items" THEN items ELSE firstPage.v[f]])

\* #restPaginateSearch
restPaginateSearch(m, parsed, nowS) ==
    IF HttpError(parsed.status) THEN Throw(m, "GitHub API error")
    ELSE IF parsed.body.t # "obj" THEN Throw(m, "Expected object response")
    ELSE LET firstPage == IF m.call.firstPage = Null THEN parsed.body
                          ELSE m.call.firstPage[1]
             items == Accumulate(m.call.out,
                                 IF "items" \in DOMAIN parsed.body.v
                                 THEN parsed.body.v.items ELSE <<>>)
             next == NextUrl(parsed.headers)
             out == WithItems(firstPage, items)
         IN  IF next # Null /\ LoopGoesOn(m.call.page)
             THEN [m EXCEPT !.call.out = items, !.call.firstPage = Some(firstPage),
                            !.call.url = next[1], !.call.page = @ + 1,
                            !.call.attempt = 0]
             ELSE StageValue(WriteCache([m EXCEPT !.call.out = items,
                                                   !.call.firstPage = Some(firstPage),
                                                   !.call.page = @ + 1],
                                        out, nowS),
                             out, nowS)

\* variant: the errors array is not looked at
HasErrorsNever(body) == FALSE

\* body?.errors?.length
HasErrors(body) ==
    body.t = "obj" /\ "errors" \in DOMAIN body.v /\ body.v.errors # <<>>

\* extract(body?.data): data?.repository?.issue?.timelineItems
Extract(body) ==
    IF body.t = "obj" /\ "timelineItems" \in DOMAIN body.v
    THEN body.v.timelineItems ELSE Null

\* variant: the cursor is followed whatever hasNextPage says
NextCursorIgnoringFlag(container) ==
    IF container # Null THEN container[1].pageInfo.endCursor ELSE Null

\* if (!container?.pageInfo?.hasNextPage) break; cursor = container.pageInfo.endCursor
NextCursor(container) ==
    IF container # Null /\ container[1].pageInfo.hasNextPage
    THEN container[1].pageInfo.endCursor ELSE Null

\* #graphqlPaginateNodes
graphqlPaginateNodes(m, parsed, nowS) ==
    IF HttpError(parsed.status) THEN Throw(m, "GitHub GraphQL error")
    ELSE IF HasErrors(parsed.body) THEN Throw(m, "GitHub GraphQL errors")
    ELSE LET container == Extract(parsed.body)
             nodes == Accumulate(m.call.out,
                                 IF container = Null THEN <<>> ELSE container[1].nodes)
             cursor == NextCursor(container)
         IN  IF cursor # Null /\ LoopGoesOn(m.call.page)
             THEN [m EXCEPT !.call.out = nodes, !.call.cursor = cursor,
                            !.call.page = @ + 1, !.call.attempt = 0]
             ELSE StageValue(WriteCache([m EXCEPT !.call.out = nodes, !.call.page = @ + 1],
                                        JArr(nodes), nowS),
                             JArr(nodes), nowS)

\* what the request helper in flight does with the response it awaited
HandleParsed(m, parsed, nowS) ==
    CASE m.call.stage = "rest" -> restRequest(m, parsed, nowS)
      [] m.call.stage \in {"issueComments", "reviewComments"} ->
            restPaginateArray(m, parsed, nowS)
      [] m.call.stage = "search" -> restPaginateSearch(m, parsed, nowS)
      [] OTHER -> graphqlPaginateNodes(m, parsed, nowS)

\* #executeWithBackoff resumes with the runner's result of one child run
executeWithBackoff(m, child, nowS) ==
    LET res == defaultGhRunner(child)
        first == m.call.attempt = 0
        m1 == [m EXCEPT
                 !.obs.fetched = TRUE,
                 !.obs.visited = IF first THEN Append(@, RequestedPage(m.call)) ELSE @,
                 !.obs.log = Append(@, child)]
        o == LoopPass(res, m.call.attempt, m.call.stage, nowS)
        handled == HandleParsed([m1 EXCEPT !.obs.returned = Some(o.parsed)],
                                o.parsed, nowS)
    IN  CASE o.k = "throw" -> Throw(m1, o.why)
          [] o.k = "retry" ->
                [m1 EXCEPT !.call.attempt = @ + 1,
                           !.obs.sleeps = IF o.sleep = <<>> THEN @
                                          ELSE Append(@, [ms |-> o.sleep[1],
                                                          after |-> Len(m1.obs.log)])]
          [] OTHER ->
                \* the observer turns to the next request when one is set up
                IF handled.pc = "running"
                THEN [handled EXCEPT !.obs.log = <<>>, !.obs.sleeps = <<>>,
                                     !.obs.returned = Null]
                ELSE handled

----------------------------------------------------------------------------
(* The environment: the answers the server may give and the child runs *)

Revs == 1..MaxRev

BodyKinds(stage) ==
    IF stage = "graphql" THEN {"good", "empty", "wrong", "errors", "nodata", "cut"}
    ELSE {"good", "empty", "wrong", "cut"}

\* every answer with a 200 status, with no status line number, or with no
\* blank line at all
PlainClasses(stage) ==
    {Class(TRUE, Some(200), HAbsent, HAbsent, Null, b, 1) : b \in BodyKinds(stage)}
    \cup {Class(TRUE, Some(200), HAbsent, HAbsent, Null, "good", r) :
            r \in (IF stage = "rest" THEN Revs ELSE {1})}
    \cup {Class(TRUE, Null, HAbsent, HAbsent, Null, "good", 1),
          Class(TRUE, Null, HNum(0), HNum(1), Null, "good", 1),
          Class(FALSE, Null, HAbsent, HAbsent, Null, "good", 1),
          Class(FALSE, Null, HAbsent, HAbsent, Null, "cut", 1)}

\* every 403 / 429 answer: each combination of the three rate-limit headers
LimitClasses ==
    {Class(TRUE, Some(st), rem, ra, rs, "empty", 1) :
        st \in {403, 429},
        rem \in {HAbsent, HNum(0), HNum(5)},
        ra \in {HAbsent, HJunk, HNum(0), HNum(1), HNum(maxBackoffSeconds + 1)},
        rs \in {Null, Some(0 - 1), Some(1), Some(maxBackoffSeconds + 1)}}

ErrorClasses ==
    {Class(TRUE, Some(st), HAbsent, HAbsent, Null, "empty", 1) : st \in {404, 500}}

AllClasses(stage) == PlainClasses(stage) \cup LimitClasses \cup ErrorClasses

\* a few answers of each kind
FewClasses(stage) ==
    {Class(TRUE, Some(200), HAbsent, HAbsent, Null, b, 1) :
        b \in BodyKinds(stage) \ {"nodata", "cut"}}
    \cup {Class(TRUE, Some(200), HAbsent, HAbsent, Null, "good", r) :
            r \in (IF stage = "rest" THEN Revs ELSE {1})}
    \cup {Class(TRUE, Some(404), HAbsent, HAbsent, Null, "empty", 1),
          Class(TRUE, Some(429), HAbsent, HNum(1), Null, "empty", 1)}

\* `gh api` exits 1 on an HTTP error status, having printed the response
GhExit(c, cl, nowS) ==
    Child("exit", IF HttpError(cl.status) THEN 1 ELSE 0, Output(c, cl, nowS), "nothing")

GoodClass == Class(TRUE, Some(200), HAbsent, HAbsent, Null, "good", 1)

\* gh fails without output (no network, no login)
GhFails == Child("exit", 1, EmptyStdout, "nothing")

ChildRuns(c, classes, cuts, nowS) ==
    {GhExit(c, cl, nowS) : cl \in classes}
    \cup {GhFails}
    \cup {Child(how, 0, Output(c, GoodClass, nowS), cut) :
            how \in {"timeout", "overflow"}, cut \in cuts}

----------------------------------------------------------------------------
(* file_cache.mjs on a shared directory: one entry, several processes *)

Pids == 1..NWriters
Readers == {"r1"}

\* cachePath(cacheDir, key): the path of the entry
EntryPath == 0

\* variant: the text is written straight onto the entry path
TmpPathIsEntry(pid) == EntryPath

\* `${filePath}.tmp.${process.pid}`
TmpPath(pid) == pid

Paths == {EntryPath} \cup Pids

\* what one write(2) call of a writer puts into a file
Chunk(pid, round, part) == [by |-> pid, round |-> round, part |-> part]

\* the text of the value an earlier run stored (by no live process)
OldText == [i \in 1..ChunksPerFile |-> Chunk(0, 0, i)]

\* fs.writeFileSync(path, ...) opens with flag 'w': the file the path names
\* is truncated, or a new file is made; the result is the open file's number
OpenForWrite(fs, path) ==
    IF fs.dir[path] # 0
    THEN [fs EXCEPT !.files[fs.dir[path]] = <<>>]
    ELSE [fs EXCEPT !.files = Append(@, <<>>), !.dir[path] = Len(fs.files) + 1]

\* fs.renameSync(from, to): the name `to` now names the file of `from`
Rename(dir, from, to) ==
    IF from = to THEN dir
    ELSE [dir EXCEPT ![to] = dir[from], ![from] = 0]

IdleWriter == [pc |-> "idle", round |-> 0, part |-> 0, fd |-> 0]
IdleReader == [pc |-> "idle", fd |-> 0, got |-> <<>>, seen |-> Null]

NoFsys ==
    [dir |-> [p \in Paths |-> 0], files |-> <<>>, writes |-> 0,
     w |-> [p \in Pids |-> IdleWriter], r |-> [r \in Readers |-> IdleReader]]

\* the entry holds the complete value of an earlier run
OldFsys == [NoFsys EXCEPT !.dir[EntryPath] = 1, !.files = <<OldText>>]

----------------------------------------------------------------------------
(* graph/reference_graph.mjs: the reference graph builder.  The builder is *)
(* one async function; it is suspended only where it awaits a client call, *)
(* so a step is the code from one await of gh.getPR, gh.listPRComments,    *)
(* gh.getIssue or gh.getIssueTimeline to the next.  A PR body, a comment   *)
(* body is the set of numbers of this repository its text mentions.        *)

JStr(s) == [t |-> "str", v |-> s]

prNodeId(number) == <<"pr", number>>
issueNodeId(number) == <<"issue", number>>

\* graph.nodes[node.id] = node
addNode(graph, node) == [graph EXCEPT !.nodes = (node.id :> node) @@ @]

\* graph.edges.push(edge)
addEdge(graph, edge) == [graph EXCEPT !.edges = Append(@, edge)]

\* arr.includes(value)
Includes(arr, value) == \E i \in 1..Len(arr) : arr[i] = value

uniquePush(arr, value) == IF Includes(arr, value) THEN arr ELSE Append(arr, value)

\* graph.nodes[id] is truthy
HasNode(graph, id) == id \in DOMAIN graph.nodes

\* variant: nothing is cut off
SliceNothing(arr, n) == arr

\* arr.slice(0, n): a negative n counts from the end
Slice(arr, n) == SubSeq(arr, 1, IF n < 0 THEN Max(Len(arr) + n, 0) ELSE Min(n, Len(arr)))

\* the numbers of a set, ascending: Array.from(out).sort((a, b) => a - b)
RECURSIVE Ascending(_)
Ascending(S) ==
    IF S = {} THEN <<>>
    ELSE LET least == CHOOSE x \in S : \A y \in S : x <= y
         IN  <<least>> \o Ascending(S \ {least})

\* the same numbers, largest first
RECURSIVE Descending(_)
Descending(S) ==
    IF S = {} THEN <<>>
    ELSE LET most == CHOOSE x \in S : \A y \in S : x >= y
         IN  <<most>> \o Descending(S \ {most})

Elements(arr) == {arr[i] : i \in 1..Len(arr)}

\* a ?? b
Coalesce(a, b) == IF a \in {JNull, NoValue} THEN b ELSE a

\* obj?.key
Field(obj, key) ==
    IF obj.t # "obj" THEN NoValue
    ELSE IF key \in DOMAIN obj.v THEN obj.v[key] ELSE NoValue

\* a node without metadata: { id, type, owner, repo, number }
StubNode(id, type, number) ==
    [id |-> id, type |-> type, number |-> number,
     title |-> NoValue, url |-> NoValue, mergedAt |-> NoValue,
     closedAt |-> NoValue, state |-> NoValue]

\* a PR node with the metadata of a fetched PR payload
PrNode(number, pr) ==
    [id |-> prNodeId(number), type |-> "pr", number |-> number,
     title |-> Coalesce(Field(pr, "title"), JNull),
     url |-> Coalesce(Coalesce(Field(pr, "html_url"), Field(pr, "url")), JNull),
     mergedAt |-> Coalesce(Field(pr, "merged_at"), JNull),
     closedAt |-> Coalesce(Field(pr, "closed_at"), JNull),
     state |-> Coalesce(Field(pr, "state"), JNull)]

\* pr?.body ?? "", by the numbers it mentions
MentionsOf(obj) == IF Field(obj, "body") = NoValue THEN {} ELSE Field(obj, "body").v

\* reference_extraction.mjs: the numbers the PR body and the comment bodies
\* mention, unique and ascending
extractReferencedNumbersFromPRAndComments(pr, comments) ==
    Ascending(MentionsOf(pr) \cup UNION {MentionsOf(comments[i]) : i \in 1..Len(comments)})

\* the PR numbers of the ClosedEvent closers and of the CrossReferencedEvent
\* sources of a timeline, each list unique and ascending
RECURSIVE PushAll(_, _, _, _)
PushAll(out, nodes, typename, i) ==
    IF i > Len(nodes) THEN out
    ELSE PushAll(IF nodes[i].typename = typename /\ nodes[i].of = "PullRequest"
                 THEN uniquePush(out, nodes[i].number) ELSE out,
                 nodes, typename, i + 1)

timelinePRNumbers(nodes) ==
    [closing |-> Ascending(Elements(PushAll(<<>>, nodes, "ClosedEvent", 1))),
     crossReferenced |-> Ascending(Elements(PushAll(<<>>, nodes, "CrossReferencedEvent", 1)))]

\* variant: a missing payload counts as an issue
KindOfNeverUnknown(issue) ==
    IF Coalesce(Field(issue, "pull_request"), JNull) # JNull THEN "pr" ELSE "issue"

\* getNumberKind: the kind a getIssue payload stands for
KindOf(issue) ==
    IF issue.t = "obj"
    THEN (IF Coalesce(Field(issue, "pull_request"), JNull) # JNull THEN "pr" ELSE "issue")
    ELSE "unknown"

EmptyMap == [x \in {} |-> x]

\* const graph = { rootId, nodes: {}, edges: [], budgets: caps, stats: ... }
NewGraph(prNumber, caps) ==
    [rootId |-> prNodeId(prNumber), nodes |-> EmptyMap, edges |-> <<>>,
     budgets |-> caps,
     stats |-> [apiCalls |-> [getPR |-> 0, getIssue |-> 0, listPRComments |-> 0,
                              getIssueTimeline |-> 0],
                truncated |-> [layer1Refs |-> FALSE, closingPrs |-> 0,
                               layer2Refs |-> 0, layer2ClosingPrs |-> 0]]]

\* no build has been started
NoBuild ==
    [pc |-> "idle", prNumber |-> 0, graph |-> NewGraph(0, [x \in {} |-> 0]),
     kindCache |-> EmptyMap, inflight |-> <<>>, calls |-> <<>>, pr |-> JNull,
     layer1 |-> <<>>, layer1Issues |-> <<>>, layer1PRs |-> <<>>,
     layer1IssueRelatedPRs |-> <<>>, refs |-> <<>>,
     layer2Issues |-> <<>>, layer2PRs |-> <<>>, i |-> 1, r |-> 1,
     got |-> NoValue]

\* variant: the counters are left alone
CountNothing(b, op) == b

\* graph.stats.apiCalls[op] += 1
Count(b, op) == [b EXCEPT !.graph.stats.apiCalls[op] = @ + 1]

\* graph.stats.apiCalls[op] += 1; await gh[op](number, { useCache: true }):
\* the call is issued and the builder is suspended at `at`
Await(b, op, number, at) ==
    [Count(b, op) EXCEPT
              !.inflight = Append(@, [op |-> op, number |-> number]),
              !.calls = Append(@, [op |-> op, number |-> number]),
              !.pc = at]

\* the awaited call has returned or thrown
Settle(b) == [b EXCEPT !.inflight = Tail(@)]

\* variant: getPR and listPRComments are issued together (Promise.all)
fetchPRWithCommentsAtOnce(b, num, at) ==
    Await(Await(b, "getPR", num, at), "listPRComments", num, at)

\* fetchPRWithComments, up to its first await
fetchPRWithComments(b, num, at) == Await(b, "getPR", num, at)

\* fetchPRWithComments, from gh.getPR's return to its second await
fetchComments(b, pr, num, at) ==
    Await([Settle(b) EXCEPT !.pr = pr], "listPRComments", num, at)

\* variant: the edges, without the stub nodes
RECURSIVE AddTimelineEdgesOnly(_, _, _, _, _)
AddTimelineEdgesOnly(graph, issueNum, prs, kind, i) ==
    IF i > Len(prs) THEN graph
    ELSE AddTimelineEdgesOnly(
             addEdge(graph, [from |-> issueNodeId(issueNum), to |-> prNodeId(prs[i]),
                             type |-> kind]),
             issueNum, prs, kind, i + 1)

\* for (const n of closing / cross): the stub node if there is none, the edge
RECURSIVE AddTimelineEdges(_, _, _, _, _)
AddTimelineEdges(graph, issueNum, prs, kind, i) ==
    IF i > Len(prs) THEN graph
    ELSE LET pid == prNodeId(prs[i])
             g == IF ~HasNode(graph, pid)
                  THEN addNode(graph, StubNode(pid, "pr", prs[i])) ELSE graph
         IN  AddTimelineEdges(
                 addEdge(g, [from |-> issueNodeId(issueNum), to |-> pid, type |-> kind]),
                 issueNum, prs, kind, i + 1)

\* variant: the cross-referencing PRs have the whole budget to themselves
CrossBudgetWhole(maxPrs, closing) == maxPrs

\* Math.max(0, maxPrs - closing.length)
CrossBudget(maxPrs, closing) == Max(0, maxPrs - Len(closing))

\* addIssueTimelineEdges, from gh.getIssueTimeline's return on
addIssueTimelineEdges(graph, issueNum, maxPrs, timeline) ==
    LET prNums == timelinePRNumbers(timeline)
        closing == Slice(prNums.closing, maxPrs)
        cross == Slice(prNums.crossReferenced, CrossBudget(maxPrs, closing))
        over == (IF Len(prNums.closing) > Len(closing) THEN 1 ELSE 0)
                + (IF Len(prNums.crossReferenced) > Len(cross) THEN 1 ELSE 0)
        g0 == [graph EXCEPT !.stats.truncated.closingPrs = @ + over]
        g1 == AddTimelineEdges(g0, issueNum, closing, "closed_by", 1)
        g2 == AddTimelineEdges(g1, issueNum, cross, "cross_referenced_by", 1)
    IN  [graph |-> g2, closing |-> closing, crossReferenced |-> cross]

\* variant: a layer-1 PR is put among the PRs to expand as well
Sort1ExpandingPRs(b, n, kind) ==
    [b EXCEPT !.layer1Issues = IF kind = "issue" THEN Append(@, n) ELSE @,
              !.layer1PRs = IF kind = "pr" THEN Append(@, n) ELSE @,
              !.layer1IssueRelatedPRs = IF kind = "pr" THEN uniquePush(@, n) ELSE @,
              !.i = @ + 1]

\* if (kind === "issue") layer1Issues.push(n); else if (kind === "pr") layer1PRs.push(n)
Sort1(b, n, kind) ==
    [b EXCEPT !.layer1Issues = IF kind = "issue" THEN Append(@, n) ELSE @,
              !.layer1PRs = IF kind = "pr" THEN Append(@, n) ELSE @,
              !.i = @ + 1]

\* variant: the layer-1 nodes, without the edges from the root
RECURSIVE AddLayer1NodesOnly(_, _, _, _)
AddLayer1NodesOnly(graph, nums, type, i) ==
    IF i > Len(nums) THEN graph
    ELSE LET id == IF type = "issue" THEN issueNodeId(nums[i]) ELSE prNodeId(nums[i])
         IN  AddLayer1NodesOnly(addNode(graph, StubNode(id, type, nums[i])),
                                nums, type, i + 1)

\* the layer-1 nodes and the references edges from the root
RECURSIVE AddLayer1(_, _, _, _)
AddLayer1(graph, nums, type, i) ==
    IF i > Len(nums) THEN graph
    ELSE LET id == IF type = "issue" THEN issueNodeId(nums[i]) ELSE prNodeId(nums[i])
         IN  AddLayer1(addEdge(addNode(graph, StubNode(id, type, nums[i])),
                               [from |-> graph.rootId, to |-> id, type |-> "references"]),
                       nums, type, i + 1)

\* variant: the references edge points back at the PR being expanded
Link2Backwards(b, n, kind) ==
    LET pid == prNodeId(b.layer1IssueRelatedPRs[b.i])
        id == IF kind = "issue" THEN issueNodeId(n) ELSE prNodeId(n)
        g == IF ~HasNode(b.graph, id)
             THEN addNode(b.graph, StubNode(id, kind, n)) ELSE b.graph
    IN  IF kind \notin {"issue", "pr"} THEN [b EXCEPT !.r = @ + 1]
        ELSE [b EXCEPT
                !.layer2Issues = IF kind = "issue" THEN uniquePush(@, n) ELSE @,
                !.layer2PRs = IF kind = "pr" THEN uniquePush(@, n) ELSE @,
                !.graph = addEdge(g, [from |-> id, to |-> pid, type |-> "references"]),
                !.r = @ + 1]

\* a layer-2 reference n of the PR being expanded, of a known kind
Link2(b, n, kind) ==
    LET pid == prNodeId(b.layer1IssueRelatedPRs[b.i])
        id == IF kind = "issue" THEN issueNodeId(n) ELSE prNodeId(n)
        g == IF ~HasNode(b.graph, id)
             THEN addNode(b.graph, StubNode(id, kind, n)) ELSE b.graph
    IN  IF kind \notin {"issue", "pr"} THEN [b EXCEPT !.r = @ + 1]
        ELSE [b EXCEPT
                !.layer2Issues = IF kind = "issue" THEN uniquePush(@, n) ELSE @,
                !.layer2PRs = IF kind = "pr" THEN uniquePush(@, n) ELSE @,
                !.graph = addEdge(g, [from |-> pid, to |-> id, type |-> "references"]),
                !.r = @ + 1]

\* stubs for the layer-2 PRs that were not expanded; return graph
RECURSIVE AddStubs(_, _, _)
AddStubs(graph, prs, i) ==
    IF i > Len(prs) THEN graph
    ELSE AddStubs(IF ~HasNode(graph, prNodeId(prs[i]))
                  THEN addNode(graph, StubNode(prNodeId(prs[i]), "pr", prs[i]))
                  ELSE graph,
                  prs, i + 1)

Finish(b) == [b EXCEPT !.graph = AddStubs(@, b.layer2PRs, 1), !.pc = "done"]

\* variant: nothing is remembered
MemoizedNever(kindCache, num) == FALSE

\* getNumberKind: kindCache.has(num)
Memoized(kindCache, num) == num \in DOMAIN kindCache

RECURSIVE Classify1(_), Expand1(_), FetchRelated(_), Classify2(_), Expand2(_)

\* for (const issueNum of layer2Issues) await addIssueTimelineEdges(...)
Expand2(b) ==
    IF b.i > Len(b.layer2Issues) THEN Finish(b)
    ELSE Await(b, "getIssueTimeline", b.layer2Issues[b.i], "timeline2")

\* for (const n of refs) { const kind = await getNumberKind(n); ... }
Classify2(b) ==
    IF b.r > Len(b.refs)
    THEN FetchRelated([b EXCEPT !.i = @ + 1, !.r = 1, !.refs = <<>>, !.pr = JNull])
    ELSE LET n == b.refs[b.r]
         IN  IF Memoized(b.kindCache, n)
             THEN Classify2(Link2(b, n, b.kindCache[n]))
             ELSE Await(b, "getIssue", n, "classify2")

\* for (const prNum of layer1IssueRelatedPRs) { await fetchPRWithComments(prNum); ... }
FetchRelated(b) ==
    IF b.i > Len(b.layer1IssueRelatedPRs) THEN Expand2([b EXCEPT !.i = 1])
    ELSE fetchPRWithComments(b, b.layer1IssueRelatedPRs[b.i], "fetchPr")

\* for (const issueNum of layer1Issues) await addIssueTimelineEdges(...)
Expand1(b) ==
    IF b.i > Len(b.layer1Issues) THEN FetchRelated([b EXCEPT !.i = 1])
    ELSE Await(b, "getIssueTimeline", b.layer1Issues[b.i], "timeline1")

\* for (const n of layer1) { const kind = await getNumberKind(n); ... }, then
\* the layer-1 nodes and edges
Classify1(b) ==
    IF b.i > Len(b.layer1)
    THEN Expand1([b EXCEPT
                    !.graph = AddLayer1(AddLayer1(@, b.layer1Issues, "issue", 1),
                                        b.layer1PRs, "pr", 1),
                    !.i = 1])
    ELSE LET n == b.layer1[b.i]
         IN  IF Memoized(b.kindCache, n)
             THEN Classify1(Sort1(b, n, b.kindCache[n]))
             ELSE Await(b, "getIssue", n, "classify1")

\* buildReferenceGraph, up to its first await
buildReferenceGraph(prNumber, caps) ==
    fetchPRWithComments(
        [NoBuild EXCEPT !.prNumber = prNumber, !.graph = NewGraph(prNumber, caps)],
        prNumber, "rootPr")

\* the root node, the layer-1 numbers and their cap
AfterRootComments(b, comments) ==
    LET layer1All == extractReferencedNumbersFromPRAndComments(b.pr, comments)
        layer1 == Slice(layer1All, b.graph.budgets.maxLayer1References)
    IN  Classify1([Settle(b) EXCEPT
            !.graph = [addNode(@, PrNode(b.prNumber, b.pr)) EXCEPT
                         !.stats.truncated.layer1Refs =
                             IF Len(layer1All) > Len(layer1) THEN TRUE ELSE @],
            !.layer1 = layer1, !.pr = JNull, !.i = 1])

\* getNumberKind, from gh.getIssue's return on
Classified(b, issue) ==
    [Settle(b) EXCEPT !.kindCache = (b.inflight[1].number :> KindOf(issue)) @@ @]

AfterClassify1(b, issue) ==
    LET c == Classified(b, issue)
        n == b.layer1[b.i]
    IN  Classify1(Sort1(c, n, c.kindCache[n]))

\* a layer-1 issue's timeline: its edges, and its PRs join the PRs to expand
RECURSIVE PushEach(_, _, _)
PushEach(arr, values, i) ==
    IF i > Len(values) THEN arr ELSE PushEach(uniquePush(arr, values[i]), values, i + 1)

AfterTimeline1(b, timeline) ==
    LET issueNum == b.layer1Issues[b.i]
        issueId == issueNodeId(issueNum)
        related == addIssueTimelineEdges(b.graph, issueNum,
                                         b.graph.budgets.maxClosingPrsPerIssue, timeline)
        prs == related.closing \o related.crossReferenced
        g == IF prs # <<>> /\ ~HasNode(related.graph, issueId)
             THEN addNode(related.graph, StubNode(issueId, "issue", issueNum))
             ELSE related.graph
    IN  Expand1([Settle(b) EXCEPT
            !.graph = g,
            !.layer1IssueRelatedPRs = PushEach(@, prs, 1),
            !.i = @ + 1])

\* a fetched PR: its node gets the metadata unless it has a title; its
\* layer-2 numbers and their cap
AfterFetchComments(b, comments) ==
    LET prNum == b.layer1IssueRelatedPRs[b.i]
        pid == prNodeId(prNum)
        upgrade == ~HasNode(b.graph, pid) \/ b.graph.nodes[pid].title \in {JNull, NoValue}
        g == IF upgrade THEN addNode(b.graph, PrNode(prNum, b.pr)) ELSE b.graph
        refsAll == extractReferencedNumbersFromPRAndComments(b.pr, comments)
        refs == Slice(refsAll, b.graph.budgets.maxLayer2ReferencesPerPr)
    IN  Classify2([Settle(b) EXCEPT
            !.graph = [g EXCEPT !.stats.truncated.layer2Refs =
                                   IF Len(refsAll) > Len(refs) THEN @ + 1 ELSE @],
            !.refs = refs, !.r = 1])

AfterClassify2(b, issue) ==
    LET c == Classified(b, issue)
        n == b.refs[b.r]
    IN  Classify2(Link2(c, n, c.kindCache[n]))

\* a layer-2 issue's timeline: its edges, no further expansion
AfterTimeline2(b, timeline) ==
    LET related == addIssueTimelineEdges(b.graph, b.layer2Issues[b.i],
                                         b.graph.budgets.maxLayer2ClosingPrsPerIssue,
                                         timeline)
    IN  Expand2([Settle(b) EXCEPT !.graph = related.graph, !.i = @ + 1])

\* the awaited call returned `value`: the builder runs to its next await
Continue(b, value) ==
    CASE b.pc = "rootPr" -> fetchComments(b, value, b.prNumber, "rootComments")
      [] b.pc = "rootComments" -> AfterRootComments(b, value)
      [] b.pc = "classify1" -> AfterClassify1(b, value)
      [] b.pc = "timeline1" -> AfterTimeline1(b, value)
      [] b.pc = "fetchPr" ->
            fetchComments(b, value, b.layer1IssueRelatedPRs[b.i], "fetchComments")
      [] b.pc = "fetchComments" -> AfterFetchComments(b, value)
      [] b.pc = "classify2" -> AfterClassify2(b, value)
      [] b.pc = "timeline2" -> AfterTimeline2(b, value)

\* variant: the error is swallowed and the graph so far is returned
RejectReturnsGraph(b) == [Settle(b) EXCEPT !.pc = "done"]

\* the awaited call threw: nothing catches it, the build rejects
Reject(b) == [Settle(b) EXCEPT !.pc = "failed"]

Suspended == {"rootPr", "rootComments", "classify1", "timeline1",
              "fetchPr", "fetchComments", "classify2", "timeline2"}

(* What the client's operations can give back to the builder *)

\* a budget of a build: nothing, or one candidate (a list of two exceeds both)
Budgets == {0, 1}

AllCaps ==
    [maxLayer1References : Budgets, maxClosingPrsPerIssue : Budgets,
     maxLayer2ReferencesPerPr : Budgets, maxLayer2ClosingPrsPerIssue : Budgets]

Bodies == [t : {"str"}, v : SUBSET Numbers]

\* getPR: the PR's payload, or null when the response body held none
PrPayloads(n) ==
    {JNull} \cup
    {JObj([number |-> n, title |-> JStr(<<"title", n>>), html_url |-> JStr(<<"u", n>>),
           merged_at |-> JNull, closed_at |-> JNull, state |-> JStr("open"),
           body |-> text]) : text \in Bodies}

\* listPRComments(...).all: no comment, or one that mentions a number
CommentLists == {<<>>} \cup {<<JObj([body |-> JStr({n})])>> : n \in Numbers}

\* getIssue: an issue, a PR (the payload has pull_request), or no payload
\* (null, or a body that is no object)
IssuePayloads(n) ==
    {JNull, JStr("x"), JObj([number |-> n]),
     JObj([number |-> n, pull_request |-> JObj([url |-> JStr("x")])])}

\* getIssueTimeline: closed by / cross-referenced by PRs, latest first
Event(typename, n) == [typename |-> typename, of |-> "PullRequest", number |-> n]

Timelines ==
    {[i \in 1..Len(c) |-> Event("ClosedEvent", c[i])]
       \o [i \in 1..Len(x) |-> Event("CrossReferencedEvent", x[i])] :
         c \in {Descending(S) : S \in SUBSET Numbers},
         x \in {Descending(S) : S \in SUBSET Numbers}}

Responses(op, n) ==
    CASE op = "getPR" -> PrPayloads(n)
      [] op = "listPRComments" -> CommentLists
      [] op = "getIssue" -> IssuePayloads(n)
      [] op = "getIssueTimeline" -> Timelines

----------------------------------------------------------------------------
(* graph/reference_extraction.mjs: extractReferencedNumbers over a text.   *)
(* A text is a sequence of pieces: the letters a and b (the owner is "a",  *)
(* the repository "b"), the digits 0 and 1, "#", "/", a blank, "-", and    *)
(* two pieces of several characters each: "H" stands for                   *)
(* "https://github.com/" and "I" for "/issues/" (or "/pull/").             *)

Pieces == {"a", "b", "0", "1", "#", "/", " ", "-", "H", "I"}

\* [owner, "/", repo], the pieces of `${owner}/${repo}`
repoFull == <<"a", "/", "b">>

\* \d
Digits == {"0", "1"}

\* [A-Za-z0-9_], for a piece that is one character
IsWord(c) == c \in {"a", "b", "0", "1"}

\* the piece begins / ends with a character of [A-Za-z0-9_]
FirstIsWord(c) == IsWord(c) \/ c = "H"
LastIsWord(c) == IsWord(c)

\* [A-Za-z0-9_.-]
NameChars == {"a", "b", "0", "1", "-"}

\* [^/]: the pieces that hold no "/"
NoSlash == Pieces \ {"/", "H", "I"}

\* the end of the longest run of pieces of the class that starts at p;
\* p - 1 when there is none
RECURSIVE RunEnd(_, _, _)
RunEnd(text, p, class) ==
    IF p <= Len(text) /\ text[p] \in class THEN RunEnd(text, p + 1, class) ELSE p - 1

\* Number.parseInt(digits, 10) of text[p..e]
RECURSIVE ParseInt(_, _, _)
ParseInt(text, p, e) ==
    IF e < p THEN 0
    ELSE 10 * ParseInt(text, p, e - 1) + (IF text[e] = "1" THEN 1 ELSE 0)

\* (\d+)\b at p: the digits run to e and a word boundary follows; the
\* result is e, or 0 when there is no such match
DigitsAt(text, p) ==
    LET e == RunEnd(text, p, Digits)
    IN  IF e >= p /\ (e = Len(text) \/ ~FirstIsWord(text[e + 1])) THEN e ELSE 0

\* a match of one of the patterns: where it ends, the number, whether it counts
NoMatch == [end |-> 0, num |-> 0, counts |-> FALSE]

\* variant: the "#" may follow any character
ShorthandAnywhereAt(text, pos) ==
    LET e == IF text[pos] = "#" THEN DigitsAt(text, pos + 1) ELSE 0
    IN  IF e # 0 THEN [end |-> e, num |-> ParseInt(text, pos + 1, e), counts |-> TRUE]
        ELSE NoMatch

\* /(^|[^A-Za-z0-9_])#(\d+)\b/ tried at pos
ShorthandAt(text, pos) ==
    LET atStart == IF pos = 1 /\ text[1] = "#" THEN DigitsAt(text, 2) ELSE 0
        after == IF ~LastIsWord(text[pos]) /\ pos < Len(text) /\ text[pos + 1] = "#"
                 THEN DigitsAt(text, pos + 2) ELSE 0
    IN  IF atStart # 0
        THEN [end |-> atStart, num |-> ParseInt(text, 2, atStart), counts |-> TRUE]
        ELSE IF after # 0
        THEN [end |-> after, num |-> ParseInt(text, pos + 2, after), counts |-> TRUE]
        ELSE NoMatch

\* /([A-Za-z0-9_.-]+\/[A-Za-z0-9_.-]+)#(\d+)\b/ tried at pos;
\* if (m[1] !== repoFull) continue
QualifiedAt(text, pos) ==
    LET r1 == RunEnd(text, pos, NameChars)
        r2 == IF r1 >= pos /\ r1 < Len(text) /\ text[r1 + 1] = "/"
              THEN RunEnd(text, r1 + 2, NameChars) ELSE 0
        e == IF r2 >= r1 + 2 /\ r2 < Len(text) /\ text[r2 + 1] = "#"
             THEN DigitsAt(text, r2 + 2) ELSE 0
    IN  IF e # 0
        THEN [end |-> e, num |-> ParseInt(text, r2 + 2, e),
              counts |-> SubSeq(text, pos, r2) = repoFull]
        ELSE NoMatch

\* /https?:\/\/github\.com\/([^/]+)\/([^/]+)\/(issues|pull)\/(\d+)\b/ tried
\* at pos; if (`${m[1]}/${m[2]}` !== repoFull) continue
UrlAt(text, pos) ==
    LET q1 == IF text[pos] = "H" THEN RunEnd(text, pos + 1, NoSlash) ELSE 0
        q2 == IF q1 >= pos + 1 /\ q1 < Len(text) /\ text[q1 + 1] = "/"
              THEN RunEnd(text, q1 + 2, NoSlash) ELSE 0
        e == IF q2 >= q1 + 2 /\ q2 < Len(text) /\ text[q2 + 1] = "I"
             THEN DigitsAt(text, q2 + 2) ELSE 0
    IN  IF e # 0
        THEN [end |-> e, num |-> ParseInt(text, q2 + 2, e),
              counts |-> SubSeq(text, pos + 1, q1) \o <<"/">> \o SubSeq(text, q1 + 2, q2)
                             = repoFull]
        ELSE NoMatch

\* String(text).matchAll(pattern) with the g flag: the leftmost match, then
\* on from its end; the numbers of the matches that count, if (num > 0)
MatchAt(pattern, text, pos) ==
    CASE pattern = "shorthand" -> ShorthandAt(text, pos)
      [] pattern = "qualified" -> QualifiedAt(text, pos)
      [] pattern = "url" -> UrlAt(text, pos)

RECURSIVE MatchAll(_, _, _, _)
MatchAll(text, pos, pattern, out) ==
    IF pos > Len(text) THEN out
    ELSE LET m == MatchAt(pattern, text, pos)
         IN  IF m.end = 0 THEN MatchAll(text, pos + 1, pattern, out)
             ELSE MatchAll(text, m.end + 1, pattern,
                           IF m.counts /\ m.num > 0 THEN out \cup {m.num} ELSE out)

\* if (!text) return []; ...; return Array.from(out).sort((a, b) => a - b)
extractReferencedNumbers(text) ==
    IF text = <<>> THEN <<>>
    ELSE Ascending(MatchAll(text, 1, "shorthand", {})
                     \cup MatchAll(text, 1, "qualified", {})
                     \cup MatchAll(text, 1, "url", {}))

\* the texts of the model: up to MaxParts words of the lexicon in a row. Every
\* text of up to MaxParts pieces is one of them, and so are longer ones made
\* with "a/b", "b/a", "#1" and "/issues/1"
Lexicon ==
    {<<c>> : c \in Pieces}
        \cup {<<"a", "/", "b">>, <<"b", "/", "a">>, <<"#", "1">>, <<"I", "1">>}

RECURSIVE Flatten(_)
Flatten(words) == IF words = <<>> THEN <<>> ELSE Head(words) \o Flatten(Tail(words))

NoDoc == [text |-> <<>>, nums |-> <<>>, done |-> FALSE]

----------------------------------------------------------------------------
(* splitHttpResponse and the parseFn of #restRequestRaw over the text of a *)
(* stdout.  A stdout is a sequence of pieces: "S" is a status line         *)
(* "HTTP/2.0 200 OK", "H" a header line "Name: v", "b" the JSON text "{}", *)
(* "w" a blank, "LF" is "\n" and "CRLF" is "\r\n".  (The client's actions  *)
(* above work on stdout already framed, see Raw.)                          *)

RawPieces == {"S", "H", "b", "w", "LF", "CRLF"}

\* the least index from i on where the pieces at the index and after it
\* are of the two sets; 0 when there is none
RECURSIVE IndexOfPair(_, _, _, _)
IndexOfPair(raw, first, second, i) ==
    IF i >= Len(raw) THEN 0
    ELSE IF raw[i] \in first /\ raw[i + 1] \in second THEN i
    ELSE IndexOfPair(raw, first, second, i + 1)

\* raw.indexOf('\r\n\r\n'), raw.indexOf('\n\n'): the piece the match begins in
IndexOfCrlfCrlf(raw) == IndexOfPair(raw, {"CRLF"}, {"CRLF"}, 1)
IndexOfLfLf(raw) == IndexOfPair(raw, {"LF", "CRLF"}, {"LF"}, 1)

\* variant: the boundary that comes first
BoundaryFirst(raw) ==
    LET c == IndexOfCrlfCrlf(raw)
        l == IndexOfLfLf(raw)
    IN  IF c = 0 THEN l ELSE IF l = 0 THEN c ELSE Min(c, l)

\* raw.indexOf('\r\n\r\n') >= 0 ? raw.indexOf('\r\n\r\n') : raw.indexOf('\n\n')
Boundary(raw) == IF IndexOfCrlfCrlf(raw) # 0 THEN IndexOfCrlfCrlf(raw) ELSE IndexOfLfLf(raw)

\* headerText.split(/\r?\n/): the lines, a "\r" that is followed by no "\n"
\* staying in its line
RECURSIVE SplitLines(_, _, _)
SplitLines(text, i, line) ==
    IF i > Len(text) THEN <<line>>
    ELSE IF text[i] \in {"LF", "CRLF"} THEN <<line>> \o SplitLines(text, i + 1, <<>>)
    ELSE SplitLines(text, i + 1, Append(line, text[i]))

\* /HTTP\/\S+\s+(\d+)/.exec(statusLine): the pattern is not anchored
StatusOfLine(line) == IF Includes(line, "S") THEN Some(200) ELSE Null

\* toLowerCase() of a piece
LowerCase(piece) == CASE piece = "S" -> "s" [] piece = "H" -> "name" [] OTHER -> piece

\* /^([^:]+):\s*(.*)$/.exec(line): the line holds a ":" (that of its first
\* "Name: v") and no "\r" after the value; m[1].toLowerCase()
RECURSIVE KeyOfLine(_, _)
KeyOfLine(line, i) ==
    IF i > Len(line) THEN <<>>
    ELSE IF line[i] = "H" THEN <<LowerCase("H")>>
    ELSE <<LowerCase(line[i])>> \o KeyOfLine(line, i + 1)

LineMatches(line) == Includes(line, "H") /\ ~Includes(line, "CR")

\* the keys of the headers object
HeaderKeys(lines) ==
    {KeyOfLine(lines[i], 1) : i \in {j \in 2..Len(lines) : LineMatches(lines[j])}}

\* splitHttpResponse on the text
splitHttpResponseText(raw) ==
    LET idx == Boundary(raw)
        headerText == SubSeq(raw, 1, idx - 1)
                          \o (IF raw[idx] = "CRLF" /\ raw[idx + 1] = "LF"
                              THEN <<"CR">> ELSE <<>>)
        headerLines == SplitLines(headerText, 1, <<>>)
    IN  IF idx = 0 THEN [status |-> Null, headers |-> {}, bodyText |-> raw]
        ELSE [status |-> StatusOfLine(headerLines[1]),
              headers |-> HeaderKeys(headerLines),
              bodyText |-> SubSeq(raw, idx + 2, Len(raw))]

\* bodyText.trim() ? JSON.parse(bodyText) : null
DecodeBody(bodyText) ==
    LET text == SelectSeq(bodyText, LAMBDA c : c \notin {"w", "LF", "CRLF"})
    IN  IF text = <<>> THEN "null"
        ELSE IF text = <<"b">> THEN "object"
        ELSE "SyntaxError"

\* the parseFn of #restRequestRaw
restParseFnText(raw) ==
    LET s == splitHttpResponseText(raw)
    IN  [status |-> s.status, headers |-> s.headers, bodyText |-> s.bodyText,
         body |-> DecodeBody(s.bodyText)]

NoHttp == [raw |-> <<>>, parsed |-> restParseFnText(<<>>), done |-> FALSE]

----------------------------------------------------------------------------
(* Actions *)

\* The stages of the client operations: each is one request helper with
\* its own cache entry.
Stages ==
    {<<"rest", "getPR">>, <<"rest", "getIssue">>, <<"issueComments", "listPRComments">>,
     <<"reviewComments", "listPRComments">>, <<"search", "searchMergedPRs">>,
     <<"graphql", "getIssueTimeline">>}

\* what a successful fetch of a stage stores when the list has one page
StoredValue(stage, op, arg) ==
    LET c == [NoCall EXCEPT !.stage = stage, !.op = op, !.arg = arg]
    IN  CASE stage = "rest" -> GoodBody(c, 1)
          [] stage = "search" -> GoodBody(c, 1)
          [] OTHER -> JArr(PageItems(stage, arg, 1))

Init ==
    /\ pc = "idle"
    /\ call = NoCall
    /\ cache = NoFiles
    /\ now = 0
    /\ result = NoResult
    /\ obs = NoObs
    /\ writer = [k \in {} |-> restParts("GET", "")]
    /\ fsys = NoFsys
    /\ build = NoBuild
    /\ doc = NoDoc
    /\ http = NoHttp

\* The cache directory outlives the process: at construction it may hold a
\* file of an earlier run, of any age, intact, holding null, or corrupt.
InitFiles ==
    /\ fsys = NoFsys
    /\ build = NoBuild
    /\ doc = NoDoc
    /\ http = NoHttp
    /\ pc = "idle"
    /\ call = NoCall
    /\ result = NoResult
    /\ obs = NoObs
    /\ now \in 0..MaxNow
    /\ \E st \in Stages, arg \in {1}, kind \in {"none", "value", "null", "corrupt"} :
         LET parts == PartsOf(st[1], st[2], arg)
             text == CASE kind = "value" -> JsonStringify(StoredValue(st[1], st[2], arg))
                       [] kind = "null" -> JsonStringify(JNull)
                       [] OTHER -> CorruptText
         IN  IF kind = "none"
             THEN cache = NoFiles /\ writer = [k \in {} |-> parts]
             ELSE /\ cache = [k \in {cacheKey(parts)} |-> [text |-> text, mtime |-> 0]]
                  /\ writer = [k \in {cacheKey(parts)} |-> parts]

Assign(m) ==
    /\ pc' = m.pc
    /\ call' = m.call
    /\ cache' = m.cache
    /\ result' = m.result
    /\ obs' = m.obs
    /\ writer' = m.writer
    /\ UNCHANGED <<fsys, build, doc, http>>

\* time passes between two client calls
Tick ==
    /\ pc = "idle"
    /\ now < MaxNow
    /\ now' = now + 1
    /\ UNCHANGED <<pc, call, cache, result, obs, writer, fsys, build, doc, http>>

\* A client operation is called: getPR(arg, {useCache}), ...  It runs up to
\* its first await of the runner, or to its end when the cache serves it.
Begin(op, arg, useCache, srv) ==
    /\ pc = "idle"
    /\ LET c == [NoCall EXCEPT !.n = call.n + 1, !.op = op, !.arg = arg,
                               !.useCache = useCache, !.srv = srv, !.at = now]
           m == [Machine EXCEPT !.call = c, !.result = NoResult, !.obs = NoObs]
       IN  Assign(EnterStage(m, FirstStage(op), now))
    /\ UNCHANGED now

\* a run makes up to MaxCalls calls, against servers whose pages form a chain
StartCall ==
    /\ call.n < MaxCalls
    /\ \E op \in Ops, arg \in Numbers, useCache \in BOOLEAN :
         \E srv \in {s \in ServersOf(FirstStage(op)) \cap RestServers : IsChain(s)} :
            Begin(op, arg, useCache, srv)

\* a single call
StartSingle ==
    /\ call.n = 0
    /\ \E op \in Ops, arg \in {1}, useCache \in BOOLEAN :
         \E srv \in {s \in ServersOf(FirstStage(op)) : IsChain(s)} :
            Begin(op, arg, useCache, srv)

\* a single paginated call, against any server: its pages may form cycles
StartPaged ==
    /\ call.n = 0
    /\ \E op \in Ops \ {"getPR", "getIssue"}, arg \in {1}, useCache \in BOOLEAN :
         \E srv \in {s \in ServersOf(FirstStage(op)) : Canonical(s)} :
            Begin(op, arg, useCache, srv)

\* The runner resolves: the child run ended, #executeWithBackoff resumes and
\* the call runs up to its next await of the runner, or to its end.
Resume(child) ==
    /\ pc = "running"
    /\ Assign(executeWithBackoff(Machine, child, now))
    /\ UNCHANGED now

RunnerReturns ==
    \E child \in ChildRuns(call, FewClasses(call.stage), {"nothing"}, now) :
        Resume(child)

\* every answer to the first pass; the second pass returns what it gets
RunnerReturnsAny ==
    \E child \in ChildRuns(call,
                           IF call.attempt = 0 THEN AllClasses(call.stage)
                           ELSE FewClasses(call.stage),
                           Cuts, now) :
        Resume(child)

Next == Tick \/ StartCall \/ RunnerReturns
Spec == Init /\ [][Next]_vars

NextRequest == StartSingle \/ RunnerReturnsAny
SpecRequest == Init /\ [][NextRequest]_vars

NextCache == StartSingle \/ RunnerReturns
SpecCache == InitFiles /\ [][NextCache]_vars

NextPaging == StartPaged \/ RunnerReturns
SpecPaging == Init /\ [][NextPaging]_vars

client == <<pc, call, cache, now, result, obs, writer>>

\* the entry path names no file, or the file of an earlier run
InitShared ==
    /\ pc = "idle" /\ call = NoCall /\ cache = NoFiles /\ now = 0
    /\ result = NoResult /\ obs = NoObs
    /\ writer = [k \in {} |-> restParts("GET", "")]
    /\ fsys \in {NoFsys, OldFsys}
    /\ build = NoBuild
    /\ doc = NoDoc
    /\ http = NoHttp

\* writeJsonCache, fs.writeFileSync(tmpPath, ...): open
WriterOpens(p) ==
    /\ fsys.w[p].pc = "idle" /\ fsys.writes < MaxWrites
    /\ LET fs == OpenForWrite(fsys, TmpPath(p))
       IN  fsys' = [fs EXCEPT !.writes = @ + 1,
                             !.w[p] = [pc |-> "writing", round |-> fsys.w[p].round + 1,
                                       part |-> 0, fd |-> fs.dir[TmpPath(p)]]]
    /\ UNCHANGED <<client, build, doc, http>>

\* fs.writeFileSync: one write(2) call on the open file
WriterWrites(p) ==
    /\ fsys.w[p].pc = "writing" /\ fsys.w[p].part < ChunksPerFile
    /\ fsys' = [fsys EXCEPT
                  !.files[fsys.w[p].fd] =
                      Append(@, Chunk(p, fsys.w[p].round, fsys.w[p].part + 1)),
                  !.w[p].part = @ + 1]
    /\ UNCHANGED <<client, build, doc, http>>

\* fs.renameSync(tmpPath, filePath), after writeFileSync returned
WriterRenames(p) ==
    /\ fsys.w[p].pc = "writing" /\ fsys.w[p].part = ChunksPerFile
    /\ fsys' = [fsys EXCEPT !.dir = Rename(@, TmpPath(p), EntryPath),
                            !.w[p].pc = "idle", !.w[p].fd = 0]
    /\ UNCHANGED <<client, build, doc, http>>

\* the process dies while it writes; its file stays where it is
WriterDies(p) ==
    /\ fsys.w[p].pc = "writing" /\ fsys.w[p].part < ChunksPerFile
    /\ fsys' = [fsys EXCEPT !.w[p].pc = "idle", !.w[p].fd = 0]
    /\ UNCHANGED <<client, build, doc, http>>

\* readJsonCache, fs.statSync(filePath): throws when the path names no file
ReaderStats(r) ==
    /\ fsys.r[r].pc \in {"idle", "done"}
    /\ fsys' = IF fsys.dir[EntryPath] = 0
               THEN [fsys EXCEPT !.r[r] = [IdleReader EXCEPT !.pc = "done"]]
               ELSE [fsys EXCEPT !.r[r] = [IdleReader EXCEPT !.pc = "stat"]]
    /\ UNCHANGED <<client, build, doc, http>>

\* fs.readFileSync(filePath): open
ReaderOpens(r) ==
    /\ fsys.r[r].pc = "stat"
    /\ fsys' = IF fsys.dir[EntryPath] = 0
               THEN [fsys EXCEPT !.r[r].pc = "done"]
               ELSE [fsys EXCEPT !.r[r].pc = "reading", !.r[r].fd = fsys.dir[EntryPath]]
    /\ UNCHANGED <<client, build, doc, http>>

\* fs.readFileSync: one read(2) call; at the end of the file the text read
\* is what the reader has observed
ReaderReads(r) ==
    /\ fsys.r[r].pc = "reading"
    /\ LET text == fsys.files[fsys.r[r].fd]
           got == fsys.r[r].got
       IN  fsys' = IF Len(got) < Len(text)
                   THEN [fsys EXCEPT !.r[r].got = Append(got, text[Len(got) + 1])]
                   ELSE [fsys EXCEPT !.r[r].pc = "done", !.r[r].seen = Some(got)]
    /\ UNCHANGED <<client, build, doc, http>>

NextShared ==
    \/ \E p \in Pids : WriterOpens(p) \/ WriterWrites(p) \/ WriterRenames(p) \/ WriterDies(p)
    \/ \E r \in Readers : ReaderStats(r) \/ ReaderOpens(r) \/ ReaderReads(r)

SpecShared == InitShared /\ [][NextShared]_vars

\* buildReferenceGraph({ gh, owner, repo, prNumber, budgets }) is called
BuildBegins ==
    /\ build.pc = "idle"
    /\ \E prNumber \in Numbers, caps \in AllCaps :
          build' = buildReferenceGraph(prNumber, caps)
    /\ UNCHANGED <<client, fsys, doc, http>>

\* the client call the builder awaits returns a value
CallReturns ==
    /\ build.pc \in Suspended
    /\ \E value \in Responses(build.inflight[1].op, build.inflight[1].number) :
          build' = [Continue(build, value) EXCEPT !.got = value]
    /\ UNCHANGED <<client, fsys, doc, http>>

\* the client call the builder awaits throws
CallThrows ==
    /\ build.pc \in Suspended
    /\ build' = Reject(build)
    /\ UNCHANGED <<client, fsys, doc, http>>

NextBuild == BuildBegins \/ CallReturns \/ CallThrows

SpecBuild == Init /\ [][NextBuild]_vars

\* a build whose budgets let one layer-1 issue bring two PRs to expand
WideCaps ==
    {[maxLayer1References |-> 1, maxClosingPrsPerIssue |-> 2,
      maxLayer2ReferencesPerPr |-> l2, maxLayer2ClosingPrsPerIssue |-> 0] : l2 \in Budgets}

BuildBeginsWide ==
    /\ build.pc = "idle"
    /\ \E prNumber \in Numbers, caps \in WideCaps :
          build' = buildReferenceGraph(prNumber, caps)
    /\ UNCHANGED <<client, fsys, doc, http>>

NextBuildWide == BuildBeginsWide \/ CallReturns \/ CallThrows

SpecBuildWide == Init /\ [][NextBuildWide]_vars

\* The caller hands extractReferencedNumbers a text and the target repository
\* a/b: any text of the model.
InitText ==
    /\ pc = "idle" /\ call = NoCall /\ cache = NoFiles /\ now = 0
    /\ result = NoResult /\ obs = NoObs
    /\ writer = [k \in {} |-> restParts("GET", "")]
    /\ fsys = NoFsys
    /\ build = NoBuild
    /\ http = NoHttp
    /\ \E n \in 0..MaxParts : \E words \in [1..n -> Lexicon] :
           doc = [NoDoc EXCEPT !.text = Flatten(words)]

\* extractReferencedNumbers(text, { owner, repo }) returns
Extracts ==
    /\ ~doc.done
    /\ doc' = [doc EXCEPT !.nums = extractReferencedNumbers(doc.text), !.done = TRUE]
    /\ UNCHANGED <<client, fsys, build, http>>

NextText == Extracts
SpecText == InitText /\ [][NextText]_vars

\* The runner hands the parseFn a stdout: any text of the model.
InitParse ==
    /\ pc = "idle" /\ call = NoCall /\ cache = NoFiles /\ now = 0
    /\ result = NoResult /\ obs = NoObs
    /\ writer = [k \in {} |-> restParts("GET", "")]
    /\ fsys = NoFsys
    /\ build = NoBuild
    /\ doc = NoDoc
    /\ \E n \in 0..MaxRaw : \E raw \in [1..n -> RawPieces] :
           http = [NoHttp EXCEPT !.raw = raw]

\* parseFn(res.stdout) returns
Parses ==
    /\ ~http.done
    /\ http' = [http EXCEPT !.parsed = restParseFnText(http.raw), !.done = TRUE]
    /\ UNCHANGED <<client, fsys, build, doc>>

NextParse == Parses
SpecParse == InitParse /\ [][NextParse]_vars

----------------------------------------------------------------------------
(* Claims *)

RestStages == {"issueComments", "reviewComments", "search"}

\* the runner's result of the i-th child run of the request observed, and
\* what the request's parseFn makes of its stdout
ResultOf(i) == defaultGhRunner(obs.log[i])
ParsedOf(i) == ParseFn(call.stage, ResultOf(i).stdout)

\* the cache entry of the fetch in flight differs from what the fetch found
EntryChanged == Entry(cache, KeyOf(call)) # Entry(obs.before, KeyOf(call))

\* C1: cache entries are keyed by the full request shape: a file stored
\* under the key of the call's request was written for that same request
\* shape, and a call served from the cache is served what was stored for
\* its own request shape (never another call's result).
C1_KeyedByFullShape ==
    /\ (call.op # "none" /\ KeyOf(call) \in DOMAIN writer)
          => writer[KeyOf(call)] = PartsOf(call.stage, call.op, call.arg)
    /\ \A i \in DOMAIN obs.hits : obs.hits[i].got = obs.hits[i].want

\* C2: cache idempotence: when a call with useCache that went to the
\* transport and succeeded is followed, within the TTL, by a call of the same
\* operation on the same resource with useCache, the second call ends
\* without invoking the runner and returns a value equal to the first's.
C2_CacheIdempotence ==
    [][(/\ pc = "idle" /\ result.status = "ok" /\ call.useCache /\ obs.fetched
        /\ call'.n = call.n + 1
        /\ call'.op = call.op /\ call'.arg = call.arg /\ call'.useCache
        /\ now - call.at <= cacheTtlSeconds)
       => (/\ pc' = "idle" /\ ~obs'.fetched
           /\ result'.status = "ok" /\ result'.value = result.value)]_vars

\* the last run of the request observed ended in a transport error
TransportError ==
    /\ obs.log # <<>>
    /\ LET res == ResultOf(Len(obs.log))
       IN  res.timedOut \/ (res.exitCode # 0 /\ res.stdout = EmptyStdout)

\* the response handed to the request helper has a status >= 400 or carries
\* GraphQL errors
StatusOrErrorsFailure ==
    /\ obs.returned # Null
    /\ \/ (obs.returned[1].status # Null /\ obs.returned[1].status[1] >= 400)
       \/ /\ call.stage = "graphql" /\ obs.returned[1].body.t = "obj"
          /\ "errors" \in DOMAIN obs.returned[1].body.v
          /\ obs.returned[1].body.v.errors # <<>>

\* the body handed to the request helper has not the shape of a page of the
\* list asked for: an array (REST list), an object (search), an object
\* holding the timeline container (GraphQL)
WrongShape ==
    /\ obs.returned # Null
    /\ LET body == obs.returned[1].body
       IN  CASE call.stage \in {"issueComments", "reviewComments"} -> body.t # "arr"
             [] call.stage = "search" -> body.t # "obj"
             [] call.stage = "graphql" ->
                    ~(body.t = "obj" /\ "timelineItems" \in DOMAIN body.v
                      /\ body.v.timelineItems # Null)
             [] OTHER -> FALSE

\* the shapes the paginators test: Array.isArray(body) for a REST list,
\* an object for search
WrongRestShape == WrongShape /\ call.stage # "graphql"

FailedAndUntouched == pc = "idle" /\ result.status = "threw" /\ ~EntryChanged

WriteOnlyAfterSuccess ==
    /\ (pc = "running" \/ result.status = "threw") => ~EntryChanged
    /\ EntryChanged => (pc = "idle" /\ result.status = "ok" /\ call.useCache
                        /\ obs.returned # Null
                        /\ ~HttpError(obs.returned[1].status))

\* C3 (as stated): no partial cache write: when a page of a fetch fails -
\* status >= 400, wrong body shape, GraphQL errors or a transport error -
\* the call throws and the cache entry of its request key is as the fetch
\* found it; the entry is written only after the last page was fetched well.
C3_AnyFailedPageThrows ==
    call.op # "none" =>
        /\ (TransportError \/ StatusOrErrorsFailure \/ WrongShape) => FailedAndUntouched
        /\ WriteOnlyAfterSuccess

\* C3 (amended): as above, the wrong body shapes being those of REST pages
\* (a list page that is no array, a search page that is no object); a
\* GraphQL page with a status below 400 and no errors is never a failure.
C3_NoPartialCacheWrite ==
    call.op # "none" =>
        /\ (TransportError \/ StatusOrErrorsFailure \/ WrongRestShape) => FailedAndUntouched
        /\ WriteOnlyAfterSuccess

\* a later page of a cached fetch failed, an older file lying under its key
C3_Witness ==
    /\ result.status = "threw" /\ call.useCache /\ call.page >= 1
    /\ KeyOf(call) \in DOMAIN cache

\* C4: retry bound: a request runs the child at most twice and sleeps at
\* most once; a sleep lasts at most maxBackoffSeconds*1000 ms and comes after
\* the first run (the second run follows it); what the second run's output
\* parses to is returned whatever its status.
C4_RetryBound ==
    /\ Len(obs.log) <= 2
    /\ Len(obs.sleeps) <= 1
    /\ \A i \in DOMAIN obs.sleeps :
          obs.sleeps[i].ms <= maxBackoffSeconds * 1000 /\ obs.sleeps[i].after = 1
    /\ (obs.sleeps # <<>> /\ Len(obs.log) = 1) => pc = "running"
    /\ (Len(obs.log) = 2 /\ ~ResultOf(2).timedOut
        /\ ~(ResultOf(2).exitCode # 0 /\ ResultOf(2).stdout = EmptyStdout)
        /\ BodyParses(ResultOf(2).stdout.text))
          => obs.returned = Some(ParsedOf(2))

\* a clamped sleep between two runs, the second's failure status returned
C4_Witness ==
    /\ Len(obs.log) = 2
    /\ obs.sleeps = <<[ms |-> maxBackoffSeconds * 1000, after |-> 1]>>
    /\ obs.returned # Null /\ obs.returned[1].status = Some(429)

\* the response the i-th child run printed signals rate limiting
SignalsRateLimit(i) ==
    /\ obs.log[i].how = "exit" /\ obs.log[i].out.head # Null
    /\ LET h == obs.log[i].out.head[1]
       IN  h.status = Some(429) \/ (h.status = Some(403) /\ h.headers.remaining = HNum(0))

\* the i-th child run ended by itself with the well-formed answer to the request
NormalResponse(i) ==
    /\ obs.log[i].how = "exit" /\ obs.log[i].code = 0 /\ obs.log[i].out.head # Null
    /\ obs.log[i].out.head[1].status = Some(200)
    /\ \E rev \in Revs : obs.log[i].out.text = TextJson(GoodBody(call, rev))

\* C5: rate-limit recovery: when a request has ended whose first response
\* signalled rate limiting with a retry-after header of value r >= 1 (and
\* whose second response, if one was asked for, was normal), the request
\* made a second run after exactly one sleep of min(r, maxBackoffSeconds)
\* seconds and the call ended well with the second response.
C5_RateLimitRecovery ==
    \A r \in 1..(maxBackoffSeconds + 1) :
        (/\ pc = "idle" /\ Len(obs.log) >= 1
         /\ SignalsRateLimit(1)
         /\ obs.log[1].out.head[1].headers.retryAfter = HNum(r)
         /\ Len(obs.log) = 2 => NormalResponse(2))
        => (/\ Len(obs.log) = 2
            /\ obs.sleeps = <<[ms |-> Min(r, maxBackoffSeconds) * 1000, after |-> 1]>>
            /\ obs.returned = Some(ParsedOf(2))
            /\ result.status = "ok")

\* both runs of the request were taken as rate-limited
BothRateLimited ==
    /\ Len(obs.log) = 2
    /\ \A i \in 1..2 : /\ ~ResultOf(i).timedOut /\ ~ParsedOf(i).threw
                       /\ IsRateLimited(ParsedOf(i))

\* C6: when both attempts of a request are rate-limited, the second response
\* is what the request hands back, the client operation fails with the
\* status-based error, and the cache entry of the request is not written.
C6_StillRateLimited ==
    BothRateLimited =>
        /\ obs.returned = Some(ParsedOf(2))
        /\ pc = "idle" /\ result.status = "threw"
        /\ result.error \in {"GitHub API error", "GitHub GraphQL error"}
        /\ ~EntryChanged

C6_Witness == BothRateLimited /\ call.useCache /\ result.status = "threw"

\* C7: a runner result with timedOut set, or with a non-zero exit code and
\* empty stdout, ends the request at once: it is the request's last run, no
\* sleep follows it, the client operation has failed with the transport
\* error and the cache entry is not written.
C7_TransportFatal ==
    \A i \in DOMAIN obs.log :
        (ResultOf(i).timedOut \/ (ResultOf(i).exitCode # 0 /\ ResultOf(i).stdout = EmptyStdout))
        => (/\ i = Len(obs.log)
            /\ \A j \in DOMAIN obs.sleeps : obs.sleeps[j].after < i
            /\ pc = "idle" /\ result.status = "threw"
            /\ result.error \in {"gh timed out", "gh failed"}
            /\ ~EntryChanged)

\* gh exits non-zero without output on the first run of a cached call
C7_Witness ==
    /\ Len(obs.log) = 1 /\ obs.log[1].how = "exit"
    /\ ResultOf(1).exitCode # 0 /\ ResultOf(1).stdout = EmptyStdout
    /\ call.useCache /\ result.status = "threw" /\ result.error = "gh failed"

\* C8: when the child was killed for exceeding the timeout or the output
\* limit, the client operation has ended in a failure and nothing was cached.
C8_KillIsHardFailure ==
    \A i \in DOMAIN obs.log :
        Killed(obs.log[i]) => (pc = "idle" /\ result.status = "threw" /\ ~EntryChanged)

\* the pages requested so far: the first page, then each time the page the
\* rel="next" link of the page before names
FollowsNextLinks ==
    obs.visited # <<>> =>
        /\ obs.visited[1] = 1
        /\ \A i \in 1..(Len(obs.visited) - 1) :
              /\ call.srv[obs.visited[i]].hasNextPage
              /\ obs.visited[i + 1] = call.srv[obs.visited[i]].endCursor

\* the items gathered are those of the pages fetched, in the order fetched
\* (a page holds one item)
ItemsInPageOrder ==
    /\ Len(call.out) = call.page
    /\ call.page <= Len(obs.visited)
    /\ \A i \in 1..call.page :
          <<call.out[i]>> = PageItems(call.stage, call.arg, obs.visited[i])

\* what the finished call gives back: the items; for search they sit in the
\* first page's object, which is what the cache holds
ReturnsMerged ==
    /\ Len(obs.visited) = call.page
    /\ call.stage = "reviewComments" => result.value.reviewComments = call.out
    /\ call.stage = "search" =>
          /\ result.value = JArr(call.out)
          /\ call.firstPage = Some(GoodBody([call EXCEPT !.url = 1], 1))
          /\ call.useCache =>
                readJsonCache(cache, KeyOf(call), cacheTtlSeconds, now)
                   = WithItems(call.firstPage[1], call.out)

LastPageHasNoNext == ~call.srv[obs.visited[Len(obs.visited)]].hasNextPage

FailsOnHttpError ==
    (obs.returned # Null /\ obs.returned[1].status # Null
     /\ obs.returned[1].status[1] >= 400)
        => (pc = "idle" /\ result.status = "threw")

\* C9 (as stated): REST pagination requests the rel="next" url page after
\* page until a page has none, returns the items of the pages in page order
\* (search: in the first page's object), and fails on a status >= 400.
C9_UntilNoNextLink ==
    call.stage \in RestStages =>
        /\ FollowsNextLinks /\ ItemsInPageOrder /\ FailsOnHttpError
        /\ (pc = "idle" /\ result.status = "ok") => (ReturnsMerged /\ LastPageHasNoNext)

\* C9 (amended): REST pagination requests the rel="next" url page after page
\* until a page has none or 200 pages have been fetched, returns the items
\* of the pages fetched in page order (search: in the first page's object),
\* and fails on a status >= 400.
C9_UntilNoNextLinkOrCap ==
    call.stage \in RestStages =>
        /\ FollowsNextLinks /\ ItemsInPageOrder /\ FailsOnHttpError
        /\ (pc = "idle" /\ result.status = "ok")
              => (ReturnsMerged /\ (LastPageHasNoNext \/ Len(obs.visited) = 200))

\* a search over a link cycle ends at the cap with 200 pages' items
C9_Witness ==
    /\ pc = "idle" /\ result.status = "ok" /\ call.stage = "search"
    /\ Len(obs.visited) = 200 /\ ~LastPageHasNoNext /\ Len(call.out) = 200

\* the runner invocations a call may still make: two for each of the pages
\* left of the list it is fetching, and those of the list still to come
\* (listPRComments fetches the review comments after the issue comments)
RunsLeft ==
    (IF call.stage = "issueComments" THEN 402 ELSE 0)
    + (200 - call.page) * 2 + (1 - call.attempt)

\* C10: pagination terminates: a paginated call requests at most 200 pages
\* of a list and runs the child at most twice for each; every runner result
\* that reaches a call under way either ends the call or lowers a natural
\* number (RunsLeft), so no server behaviour keeps a call going for ever.
C10_PaginationTerminates ==
    /\ [](Len(obs.visited) <= 200 /\ Len(obs.log) <= 2 /\ RunsLeft \in Nat)
    /\ [][pc = "running" => (pc' = "idle" \/ RunsLeft' < RunsLeft)]_vars

\* a timeline whose cursors cycle ends after 200 pages
C10_Witness ==
    /\ pc = "idle" /\ result.status = "ok"
    /\ call.stage = "graphql" /\ Len(obs.visited) = 200
    /\ call.srv[obs.visited[200]].hasNextPage /\ call.srv[obs.visited[200]].endCursor # 0

\* what the last GraphQL response reported: its container, null when the
\* body holds none
LastContainer ==
    IF obs.returned # Null /\ obs.returned[1].body.t = "obj"
       /\ "timelineItems" \in DOMAIN obs.returned[1].body.v
    THEN obs.returned[1].body.v.timelineItems ELSE Null

LastReportsNext ==
    /\ LastContainer # Null
    /\ LastContainer[1].pageInfo.hasNextPage
    /\ LastContainer[1].pageInfo.endCursor # Null

\* C11: GraphQL cursor protocol: the first page is requested without a
\* cursor; the request for page k+1 carries the endCursor page k returned,
\* and is made only if page k reported hasNextPage with a non-null
\* endCursor; a call that ended well stopped because its last page reported
\* no further page or because 200 pages were fetched; the list returned is
\* the pages' nodes in page order.
C11_CursorProtocol ==
    call.stage = "graphql" =>
        /\ call.page = 0 => call.cursor = Null
        /\ obs.visited # <<>> => obs.visited[1] = 1
        /\ \A i \in 1..(Len(obs.visited) - 1) :
              /\ call.srv[obs.visited[i]].hasNextPage
              /\ call.srv[obs.visited[i]].endCursor # 0
              /\ obs.visited[i + 1] = call.srv[obs.visited[i]].endCursor
        /\ (pc = "running" /\ call.page >= 1) =>
              /\ call.page <= Len(obs.visited)
              /\ call.srv[obs.visited[call.page]].hasNextPage
              /\ call.cursor # Null
              /\ call.cursor = CursorOf(call.srv[obs.visited[call.page]].endCursor)
        /\ (pc = "idle" /\ result.status = "ok") =>
              /\ Len(obs.visited) = call.page
              /\ ~LastReportsNext \/ Len(obs.visited) = 200
              /\ result.value = JArr(call.out)
              /\ LET lastNodes == IF LastContainer = Null THEN <<>>
                                  ELSE LastContainer[1].nodes
                 IN  /\ Len(call.out) = call.page - 1 + Len(lastNodes)
                     /\ \A i \in 1..(call.page - 1) :
                           <<call.out[i]>> = PageItems("graphql", call.arg, obs.visited[i])
                     /\ SubSeq(call.out, call.page, Len(call.out)) = lastNodes

\* a timeline of two pages was fetched to its end
C11_Witness ==
    /\ pc = "idle" /\ result.status = "ok" /\ call.stage = "graphql"
    /\ obs.visited = <<1, 2>> /\ Len(call.out) = 2 /\ ~LastReportsNext

\* the response handed to the GraphQL paginator carries a non-empty errors array
CarriesErrors ==
    /\ call.stage = "graphql" /\ obs.returned # Null
    /\ obs.returned[1].body.t = "obj"
    /\ "errors" \in DOMAIN obs.returned[1].body.v
    /\ obs.returned[1].body.v.errors # <<>>

\* C12: a GraphQL response with a non-empty errors array, on whatever page,
\* ends getIssueTimeline in a failure: the call has thrown, it returns no
\* nodes, the page that carried the errors is the last one requested, and
\* the cache entry is as the call found it.
C12_GraphqlErrorsFail ==
    CarriesErrors =>
        /\ pc = "idle" /\ result.status = "threw" /\ result.value = NoValue
        /\ result.error \in {"GitHub GraphQL errors", "GitHub GraphQL error"}
        /\ Len(obs.visited) = call.page + 1
        /\ ~EntryChanged

\* the second page of a cached timeline fetch carries errors
C12_Witness ==
    /\ CarriesErrors /\ call.useCache /\ call.page = 1 /\ Len(call.out) = 1
    /\ result.error = "GitHub GraphQL errors"

\* the elements of a list that carry the creation stamp t, in the list's order
WithStamp(list, t) == SelectSeq(list, LAMBDA x : x.created_at = t)

\* the two lists of a finished listPRComments call, one after the other
BothComments == result.value.issueComments \o result.value.reviewComments

ListedComments == pc = "idle" /\ result.status = "ok" /\ call.op = "listPRComments"

\* C13: comment merge ordering: `all` of a listPRComments result holds the
\* elements of issueComments and reviewComments (each as often as there),
\* in ascending order of their creation stamps; the elements of one stamp
\* stand in their source order: issue comments before review comments, each
\* kind as fetched.
C13_CommentMergeOrder ==
    ListedComments =>
        LET all == result.value.all
        IN  /\ Len(all) = Len(BothComments)
            /\ \A i \in 1..(Len(all) - 1) : all[i].created_at <= all[i + 1].created_at
            /\ \A t \in {BothComments[i].created_at : i \in DOMAIN BothComments} :
                  WithStamp(all, t) = WithStamp(BothComments, t)

\* the lists come out of order one after the other, and an issue comment
\* and a review comment carry the same stamp
C13_Witness ==
    /\ ListedComments
    /\ \E i \in 1..(Len(BothComments) - 1) :
          BothComments[i].created_at > BothComments[i + 1].created_at
    /\ \E i \in DOMAIN result.value.issueComments :
          \E j \in DOMAIN result.value.reviewComments :
             result.value.issueComments[i].created_at
                = result.value.reviewComments[j].created_at

\* the file the request helper found under its key is older than the TTL
FoundExpired ==
    /\ call.op # "none" /\ call.useCache
    /\ KeyOf(call) \in DOMAIN obs.before
    /\ now - obs.before[KeyOf(call)].mtime > cacheTtlSeconds

\* C14: TTL invariant: readJsonCache returns a stored value only if
\* now - mtime <= ttl; a client call that finds its entry older than the
\* TTL is not served from it and goes to the transport.
C14_TtlInvariant ==
    /\ \A k \in DOMAIN cache :
          readJsonCache(cache, k, cacheTtlSeconds, now) # JNull
             => now - cache[k].mtime <= cacheTtlSeconds
    /\ FoundExpired =>
          /\ pc = "running" \/ obs.fetched
          /\ \A i \in DOMAIN obs.hits :
                obs.hits[i].want # PartsOf(call.stage, call.op, call.arg)

\* a call found a well-formed entry that had expired, and fetched afresh
C14_Witness ==
    /\ FoundExpired /\ obs.before[KeyOf(call)].text # CorruptText
    /\ obs.before[KeyOf(call)].text # JsonStringify(JNull)
    /\ obs.fetched /\ result.status = "ok"

\* the request helper found no usable file under its key: none, one older
\* than the TTL, or one that cannot be read or parsed
FoundUnusable ==
    /\ call.op # "none" /\ call.useCache
    /\ \/ KeyOf(call) \notin DOMAIN obs.before
       \/ now - obs.before[KeyOf(call)].mtime > cacheTtlSeconds
       \/ obs.before[KeyOf(call)].text = CorruptText

\* the value of the call is made of what the fetch returned
ValueFromFetch ==
    /\ obs.returned # Null /\ ~HttpError(obs.returned[1].status)
    /\ Len(obs.visited) = call.page + (IF call.stage = "rest" THEN 1 ELSE 0)
    /\ CASE call.stage = "rest" -> result.value = obs.returned[1].body
         [] call.stage = "reviewComments" -> result.value.reviewComments = call.out
         [] OTHER -> result.value = JArr(call.out)

\* C15: cache read failures are never surfaced: on a missing, expired,
\* unreadable or corrupt file readJsonCache returns null, the call goes to
\* the transport, and it ends well or fails as that fetch does: a failure
\* is a failure of the fetch, a value is made of the fetched responses.
C15_CacheReadFailures ==
    FoundUnusable =>
        /\ readJsonCache(obs.before, KeyOf(call), cacheTtlSeconds, now) = JNull
        /\ pc = "running" \/ obs.fetched
        /\ result.status = "threw" =>
              /\ result.error \in {"gh timed out", "gh failed", "GitHub API error",
                                   "GitHub GraphQL error", "GitHub GraphQL errors",
                                   "Expected array response", "Expected object response"}
              /\ TransportError \/ StatusOrErrorsFailure \/ WrongRestShape
        /\ result.status = "ok" => ValueFromFetch

\* a call found a corrupt file under its key, fetched and ended well
C15_Witness ==
    /\ FoundUnusable /\ KeyOf(call) \in DOMAIN obs.before
    /\ obs.before[KeyOf(call)].text = CorruptText
    /\ now - obs.before[KeyOf(call)].mtime <= cacheTtlSeconds
    /\ pc = "idle" /\ result.status = "ok" /\ obs.fetched

\* a text is the complete text of one write: all its chunks, in order
CompleteText(text) ==
    /\ Len(text) = ChunksPerFile
    /\ \A i \in 1..ChunksPerFile :
          text[i].part = i /\ text[i].by = text[1].by /\ text[i].round = text[1].round

\* C16: atomic cache write: whatever the interleaving of writers (temp file,
\* then rename) and readers of one entry, the file the entry path names is
\* complete, and what a reader has read from the entry path is a complete
\* text (of the earlier value or of a write); a reader that found no file
\* has read nothing.
C16_AtomicCacheWrite ==
    /\ fsys.dir[EntryPath] # 0 => CompleteText(fsys.files[fsys.dir[EntryPath]])
    /\ \A r \in Readers :
          /\ fsys.r[r].seen # Null => CompleteText(fsys.r[r].seen[1])
          /\ fsys.r[r].pc = "reading" =>
                fsys.r[r].got = SubSeq(fsys.files[fsys.r[r].fd], 1, Len(fsys.r[r].got))

\* a reader has read the earlier value to its end while a writer renamed a
\* new one onto the entry and another writer is half way through its file
C16_Witness ==
    /\ \E r \in Readers : fsys.r[r].seen = Some(OldText)
    /\ fsys.dir[EntryPath] # 0 /\ fsys.files[fsys.dir[EntryPath]] # OldText
    /\ \E p \in Pids : fsys.w[p].pc = "writing" /\ fsys.w[p].part = 1

\* C17: sequential crawl: during a build at most one client call is in
\* flight: the builder is suspended exactly while it awaits one call, the
\* last one it issued, and every earlier call of the build has completed.
C17_SequentialCrawl ==
    /\ Len(build.inflight) <= 1
    /\ build.pc \in Suspended <=> build.inflight # <<>>
    /\ build.inflight # <<>> => build.inflight[1] = build.calls[Len(build.calls)]

\* the eighth call of a two-layer crawl is in flight: a layer-2 timeline,
\* after both PR fetches, both classifications and the layer-1 timeline
C17_Witness ==
    /\ build.pc = "timeline2"
    /\ Len(build.calls) = 8
    /\ build.inflight = <<build.calls[8]>>
    /\ {build.calls[i].op : i \in 1..8} =
           {"getPR", "listPRComments", "getIssue", "getIssueTimeline"}

\* C18: classification failure is not fatal: when the getIssue call made to
\* classify a number throws, the number is classified unknown and the build
\* goes on (it does not fail).
C18_ClassificationFailureNotFatal ==
    [][(CallThrows /\ build.inflight[1].op = "getIssue") =>
          /\ build'.pc # "failed"
          /\ build.inflight[1].number \in DOMAIN build'.kindCache
          /\ build'.kindCache[build.inflight[1].number] = "unknown"]_vars

MetaFields == {"title", "url", "mergedAt", "closedAt", "state"}

\* C19: nodes are never downgraded: no step of a build removes a node or
\* turns a metadata field of a node that holds a value into null or into a
\* missing field; so the root node keeps the fetched root PR's metadata.
C19_NeverDowngraded ==
    [][\A id \in DOMAIN build.graph.nodes :
          /\ id \in DOMAIN build'.graph.nodes
          /\ \A f \in MetaFields :
                build.graph.nodes[id][f] \notin {JNull, NoValue}
                    => build'.graph.nodes[id][f] = build.graph.nodes[id][f]]_vars

\* a timeline holds more closing PRs than the budget, or more
\* cross-referencing PRs than the closing PRs leave of it
TimelineOver(timeline, maxPrs) ==
    LET prNums == timelinePRNumbers(timeline)
    IN  \/ Len(prNums.closing) > maxPrs
        \/ Len(prNums.crossReferenced)
               > Max(0, maxPrs - Min(maxPrs, Len(prNums.closing)))

RefsOver(pr, comments, cap) ==
    Len(extractReferencedNumbersFromPRAndComments(pr, comments)) > cap

\* C20: truncation accounting: each entry of stats.truncated is set (non-zero)
\* exactly when a candidate list of its own step has exceeded the budget:
\* layer1Refs for the root's references, closingPrs for a layer-1 issue's
\* timeline, layer2Refs for a fetched PR's references, layer2ClosingPrs for
\* a layer-2 issue's timeline.
C20_TruncationAccounting ==
    [][CallReturns =>
          LET was == build.graph.stats.truncated
              is == build'.graph.stats.truncated
              caps == build.graph.budgets
              got == build'.got
          IN  /\ is.layer1Refs =
                    (was.layer1Refs \/
                       (build.pc = "rootComments"
                          /\ RefsOver(build.pr, got, caps.maxLayer1References)))
              /\ (is.closingPrs > 0) =
                    (was.closingPrs > 0 \/
                       (build.pc = "timeline1"
                          /\ TimelineOver(got, caps.maxClosingPrsPerIssue)))
              /\ (is.layer2Refs > 0) =
                    (was.layer2Refs > 0 \/
                       (build.pc = "fetchComments"
                          /\ RefsOver(build.pr, got, caps.maxLayer2ReferencesPerPr)))
              /\ (is.layer2ClosingPrs > 0) =
                    (was.layer2ClosingPrs > 0 \/
                       (build.pc = "timeline2"
                          /\ TimelineOver(got, caps.maxLayer2ClosingPrsPerIssue)))]_vars

\* how often the build has invoked a client operation
CallsOf(op) == Cardinality({i \in 1..Len(build.calls) : build.calls[i].op = op})

\* the numbers it has invoked the operation for, after the root's two calls
NumbersCalled(op) ==
    {build.calls[i].number : i \in {j \in 3..Len(build.calls) : build.calls[j].op = op}}

\* C21: budgets bound cost: with budgets L1, C1, L2, C2 a build makes at
\* most 1+L1*C1 getPR and as many listPRComments calls, at most L1+L1*C1*L2
\* getIssue and as many getIssueTimeline calls, and holds at most
\* 1+L1+L1*C1+L1*C1*L2+L1*C1*L2*C2 nodes; the lists it iterates are within
\* their budgets and a call (after the root's two) is made only for a member
\* of such a list.
C21_BudgetsBoundCost ==
    build.pc # "idle" =>
        LET L1 == build.graph.budgets.maxLayer1References
            C1 == build.graph.budgets.maxClosingPrsPerIssue
            L2 == build.graph.budgets.maxLayer2ReferencesPerPr
            C2 == build.graph.budgets.maxLayer2ClosingPrsPerIssue
        IN  /\ CallsOf("getPR") <= 1 + L1 * C1
            /\ CallsOf("listPRComments") <= 1 + L1 * C1
            /\ CallsOf("getIssue") <= L1 + L1 * C1 * L2
            /\ CallsOf("getIssueTimeline") <= L1 + L1 * C1 * L2
            /\ Cardinality(DOMAIN build.graph.nodes)
                  <= 1 + L1 + L1 * C1 + L1 * C1 * L2 + L1 * C1 * L2 * C2
            /\ Len(build.layer1) <= L1
            /\ Len(build.layer1IssueRelatedPRs) <= Len(build.layer1Issues) * C1
            /\ Len(build.refs) <= L2
            /\ Len(build.layer2Issues) <= Len(build.layer1IssueRelatedPRs) * L2
            /\ NumbersCalled("getPR") \subseteq Elements(build.layer1IssueRelatedPRs)
            /\ NumbersCalled("listPRComments") \subseteq Elements(build.layer1IssueRelatedPRs)
            /\ NumbersCalled("getIssue") \subseteq
                   Elements(build.layer1) \cup Elements(build.refs)
                       \cup DOMAIN build.kindCache
            /\ NumbersCalled("getIssueTimeline") \subseteq
                   Elements(build.layer1Issues) \cup Elements(build.layer2Issues)

\* a finished build with every budget 1 that has spent them: two getPR, two
\* getIssue and two getIssueTimeline calls, with candidates cut off from the
\* root's references and from a timeline
C21_Witness ==
    /\ build.pc = "done"
    /\ \A f \in DOMAIN build.graph.budgets : build.graph.budgets[f] = 1
    /\ CallsOf("getPR") = 2 /\ CallsOf("getIssue") = 2
    /\ CallsOf("getIssueTimeline") = 2
    /\ build.graph.stats.truncated.layer1Refs
    /\ build.graph.stats.truncated.closingPrs > 0

\* C22: no PR payload is fetched twice: a build invokes getPR, and
\* listPRComments, at most once for any PR number.
C22_NoPrFetchedTwice ==
    \A i, j \in 1..Len(build.calls) :
        (i < j /\ build.calls[i].op \in {"getPR", "listPRComments"}
               /\ build.calls[i].op = build.calls[j].op)
            => build.calls[i].number # build.calls[j].number

Edge(from, to, type) == [from |-> from, to |-> to, type |-> type]

HasEdge(b, from, to, type) == Edge(from, to, type) \in Elements(b.graph.edges)

\* the node id of a number of a known kind
IdOf(kind, n) == IF kind = "issue" THEN issueNodeId(n) ELSE prNodeId(n)

\* every number of `nums` that b has classified issue or pr has a
\* references edge from `from`
References(b, from, nums) ==
    \A n \in Elements(nums) :
        (n \in DOMAIN b.kindCache /\ b.kindCache[n] \in {"issue", "pr"})
            => HasEdge(b, from, IdOf(b.kindCache[n], n), "references")

\* the within-budget PRs of a timeline have their edges from the issue
TimelineEdges(b, issueNum, timeline, maxPrs) ==
    LET prNums == timelinePRNumbers(timeline)
        closing == Slice(prNums.closing, maxPrs)
        cross == Slice(prNums.crossReferenced, Max(0, maxPrs - Len(closing)))
    IN  /\ \A p \in Elements(closing) :
              HasEdge(b, issueNodeId(issueNum), prNodeId(p), "closed_by")
        /\ \A p \in Elements(cross) :
              HasEdge(b, issueNodeId(issueNum), prNodeId(p), "cross_referenced_by")

PastLayer1 == {"timeline1", "fetchPr", "fetchComments", "classify2", "timeline2", "done"}

\* the step that ends the classification of a fetched PR's references
EndsRefsOf(b, c) ==
    /\ b.pc \in {"fetchComments", "classify2"}
    /\ c.pc # "failed"
    /\ ~(c.pc = "classify2" /\ c.i = b.i)

\* a step of the build in which the call it awaited returned
Returned == build.pc \in Suspended /\ build'.pc # "failed"

\* C23: two-layer edge production: once layer 1 is classified the edge list
\* holds a references edge from the root to every within-budget layer-1
\* number classified issue or pr; a returned timeline of a layer-1 or
\* layer-2 issue adds the closed_by and cross_referenced_by edges to its
\* within-budget PRs; when the references of a fetched PR are classified
\* the list holds a references edge from the PR to each of them that is an
\* issue or a pr; and no edge is ever taken out again.
C23_EdgeProduction ==
    /\ [][build'.pc \in PastLayer1 =>
              /\ \A n \in Elements(build'.layer1) : n \in DOMAIN build'.kindCache
              /\ References(build', build'.graph.rootId, build'.layer1)]_vars
    /\ [][Returned =>
            /\ SubSeq(build'.graph.edges, 1, Len(build.graph.edges)) = build.graph.edges
            /\ build.pc = "timeline1" =>
                  TimelineEdges(build', build.inflight[1].number, build'.got,
                                build.graph.budgets.maxClosingPrsPerIssue)
            /\ build.pc = "timeline2" =>
                  TimelineEdges(build', build.inflight[1].number, build'.got,
                                build.graph.budgets.maxLayer2ClosingPrsPerIssue)
            /\ EndsRefsOf(build, build') =>
                  LET refs == IF build.pc = "classify2" THEN build.refs
                              ELSE Slice(extractReferencedNumbersFromPRAndComments(
                                             build.pr, build'.got),
                                         build.graph.budgets.maxLayer2ReferencesPerPr)
                  IN  /\ \A n \in Elements(refs) : n \in DOMAIN build'.kindCache
                      /\ References(build', prNodeId(build.layer1IssueRelatedPRs[build.i]),
                                    refs)]_vars

\* a returned graph of a full two-layer crawl: the root references an issue,
\* that issue is closed by a PR, the PR references a second issue, and the
\* second issue is cross-referenced by a PR
C23_Witness ==
    /\ build.pc = "done"
    /\ \E a, c \in Numbers, p, q \in Numbers :
          /\ a # c
          /\ HasEdge(build, build.graph.rootId, issueNodeId(a), "references")
          /\ HasEdge(build, issueNodeId(a), prNodeId(p), "closed_by")
          /\ HasEdge(build, prNodeId(p), issueNodeId(c), "references")
          /\ HasEdge(build, issueNodeId(c), prNodeId(q), "cross_referenced_by")

\* C24: no partial graph: when a getPR, listPRComments or getIssueTimeline
\* call of a build throws, the build fails there and then, and a failed
\* build never comes to return a graph.
C24_NoPartialGraph ==
    /\ [][(CallThrows /\ build.inflight[1].op
                            \in {"getPR", "listPRComments", "getIssueTimeline"})
             => build'.pc = "failed"]_vars
    /\ [][build.pc = "failed" => build'.pc = "failed"]_vars

\* a build has failed on the timeline of a layer-2 issue, with the nodes
\* and edges of layer 1 already in its graph
C24_Witness ==
    /\ build.pc = "failed"
    /\ build.calls[Len(build.calls)].op = "getIssueTimeline"
    /\ CallsOf("getIssueTimeline") = 2
    /\ build.graph.edges # <<>>

ClientOps == {"getPR", "getIssue", "listPRComments", "getIssueTimeline"}

\* C25: call counters are exact: at every point of a build, and so in the
\* returned graph, each stats.apiCalls counter equals the number of times
\* the build has invoked that client operation.
C25_CallCountersExact ==
    build.pc # "idle" =>
        \A op \in ClientOps : build.graph.stats.apiCalls[op] = CallsOf(op)

\* a returned graph whose layer-2 PR referenced the layer-1 issue again: two
\* PR fetches, two timeline calls, one getIssue call (the second
\* classification was memoized)
C25_Witness ==
    /\ build.pc = "done"
    /\ build.graph.stats.apiCalls =
           [getPR |-> 2, getIssue |-> 1, listPRComments |-> 2, getIssueTimeline |-> 2]
    /\ build.layer2Issues = build.layer1Issues

\* the "#" at h of the text is followed by the digits up to e
HashNumber(text, h, e) ==
    /\ text[h] = "#" /\ h < e
    /\ \A i \in (h + 1)..e : text[i] \in Digits

\* a letter, digit or underscore stands immediately before the "#" at h /
\* immediately after the digits that end at e
EmbeddedBefore(text, h) == h > 1 /\ LastIsWord(text[h - 1])
EmbeddedAfter(text, e) == e < Len(text) /\ FirstIsWord(text[e + 1])

\* the "#" at h is the one of a qualified reference a/b#N to the target
\* repository: a/b stands before it and is not the tail of a longer name
TargetQualified(text, h) ==
    /\ h >= 4 /\ SubSeq(text, h - 3, h - 1) = repoFull
    /\ h = 4 \/ text[h - 4] \notin NameChars

\* the numbers the text mentions with a "#" in a given way
HashNumbers(text, Way(_, _)) ==
    {ParseInt(text, he[1] + 1, he[2]) :
        he \in {x \in (1..Len(text)) \X (1..Len(text)) :
                   HashNumber(text, x[1], x[2]) /\ Way(x[1], x[2])}}

\* the numbers of the URLs of issues and pull requests of the target
\* repository in the text
UrlNumbers(text) ==
    {ParseInt(text, pe[1] + 5, pe[2]) :
        pe \in {x \in (1..Len(text)) \X (1..Len(text)) :
                   /\ x[1] + 5 <= x[2]
                   /\ SubSeq(text, x[1], x[1] + 4) = <<"H">> \o repoFull \o <<"I">>
                   /\ \A i \in (x[1] + 5)..x[2] : text[i] \in Digits
                   /\ ~EmbeddedAfter(text, x[2])}}

Boundaried(text) ==
    LET Way(h, e) == ~EmbeddedBefore(text, h) /\ ~EmbeddedAfter(text, e)
    IN  HashNumbers(text, Way)

QualifiedNumbers(text) ==
    LET Way(h, e) == TargetQualified(text, h) /\ ~EmbeddedAfter(text, e)
    IN  HashNumbers(text, Way)

\* C26: extractReferencedNumbers never returns N for a #N whose digits are
\* immediately followed by a letter, digit or underscore, nor for a #N with
\* a letter, digit or underscore immediately before the "#" unless that #N
\* ends a qualified reference a/b#N to the target repository; and a properly
\* boundaried #M with M > 0 in the same text is returned.
C26_NoMatchInsideToken ==
    doc.done =>
        /\ \A n \in Elements(doc.nums) :
               n \in Boundaried(doc.text) \cup QualifiedNumbers(doc.text)
                        \cup UrlNumbers(doc.text)
        /\ \A m \in Boundaried(doc.text) : m > 0 => m \in Elements(doc.nums)

\* the statement without the exception: a number that is returned is that
\* of a properly boundaried #N or of a URL, and every properly boundaried
\* #M of an issue or pull request (M > 0) is returned
C26_AsWorded ==
    doc.done =>
        /\ \A n \in Elements(doc.nums) :
               n \in Boundaried(doc.text) \cup UrlNumbers(doc.text)
        /\ \A m \in Boundaried(doc.text) \ {0} : m \in Elements(doc.nums)

\* a text with a #N inside a token and a properly boundaried #M: M is
\* returned and N is not
C26_Witness ==
    /\ doc.done
    /\ \E n, m \in 1..11 :
          LET Inside(h, e) == EmbeddedBefore(doc.text, h) \/ EmbeddedAfter(doc.text, e)
          IN  /\ n \in HashNumbers(doc.text, Inside) /\ n \notin Elements(doc.nums)
              /\ m \in Boundaried(doc.text) /\ m \in Elements(doc.nums)

\* where the run of pieces of the class that ends at p begins; p + 1 when
\* there is none
RECURSIVE RunStart(_, _, _)
RunStart(text, p, class) ==
    IF p >= 1 /\ text[p] \in class THEN RunStart(text, p - 1, class) ELSE p + 1

\* the "#" at h ends a qualified reference owner/repo#N to a repository
\* other than the target: a name, a "/" and a name stand before it, over
\* their whole length, and they are not a/b
OtherQualified(text, h) ==
    LET r == RunStart(text, h - 1, NameChars)
        o == IF r <= h - 1 /\ r > 1 /\ text[r - 1] = "/"
             THEN RunStart(text, r - 2, NameChars) ELSE r
    IN  /\ r <= h - 1 /\ o <= r - 2
        /\ SubSeq(text, o, h - 1) # repoFull

\* the numbers the text references for another repository: other/repo#N, or
\* the URL of an issue or pull request of another owner/repo
OtherRepoNumbers(text) ==
    LET Way(h, e) == OtherQualified(text, h) /\ ~EmbeddedAfter(text, e)
    IN  HashNumbers(text, Way)
          \cup {ParseInt(text, x[3] + 1, x[4]) :
                  x \in {y \in (1..Len(text)) \X (1..Len(text)) \X (1..Len(text))
                                 \X (1..Len(text)) :
                           /\ y[1] + 1 < y[2] /\ y[2] + 1 < y[3] /\ y[3] < y[4]
                           /\ text[y[1]] = "H" /\ text[y[2]] = "/" /\ text[y[3]] = "I"
                           /\ \A i \in (y[1] + 1)..(y[3] - 1) \ {y[2]} : text[i] \in NoSlash
                           /\ SubSeq(text, y[1] + 1, y[3] - 1) # repoFull
                           /\ \A i \in (y[3] + 1)..y[4] : text[i] \in Digits
                           /\ ~EmbeddedAfter(text, y[4])}}

\* the numbers the text references for the target repository: a properly
\* boundaried #N that ends no reference to another repository, a/b#N, or a
\* URL of the target repository
TargetNumbers(text) ==
    LET Way(h, e) == /\ ~EmbeddedBefore(text, h) /\ ~EmbeddedAfter(text, e)
                     /\ ~OtherQualified(text, h)
    IN  HashNumbers(text, Way) \cup QualifiedNumbers(text) \cup UrlNumbers(text)

\* C27: extractReferencedNumbers returns a strictly ascending list of
\* positive integers, the union of the matches of the three patterns, and a
\* number that the text references only for another repository never
\* appears in the result.
C27_SameRepoOnly ==
    doc.done =>
        /\ \A i, j \in 1..Len(doc.nums) : i < j => doc.nums[i] < doc.nums[j]
        /\ \A n \in Elements(doc.nums) : n > 0
        /\ Elements(doc.nums) =
               (Boundaried(doc.text) \cup QualifiedNumbers(doc.text)
                    \cup UrlNumbers(doc.text)) \ {0}
        /\ \A n \in OtherRepoNumbers(doc.text) \ TargetNumbers(doc.text) :
               n \notin Elements(doc.nums)

\* the response the first runner invocation of the request resolved with:
\* its status line and headers
FirstResponse == splitHttpResponse(ResultOf(1).stdout)

\* status 429, or status 403 with x-ratelimit-remaining: 0
FirstIsRateLimitSignal ==
    \/ FirstResponse.status = Some(429)
    \/ FirstResponse.status = Some(403) /\ FirstResponse.headers.remaining = HNum(0)

\* C28: only rate-limit signals trigger a retry: a request invokes the
\* runner a second time, or sleeps, only if its first response has status
\* 429, or status 403 with a remaining-rate-limit header equal to 0; after
\* any other first response the runner was invoked exactly once and there
\* was no sleep.
C28_OnlyRateLimitRetries ==
    obs.log # <<>> =>
        /\ (Len(obs.log) >= 2 \/ obs.sleeps # <<>>) => FirstIsRateLimitSignal
        /\ ~FirstIsRateLimitSignal => (Len(obs.log) = 1 /\ obs.sleeps = <<>>)
        /\ (~FirstIsRateLimitSignal /\ ~IsFatal(ResultOf(1)) /\ ~ParsedOf(1).threw)
              => obs.returned = Some(ParsedOf(1))

\* a 403 with x-ratelimit-remaining: 0 and retry-after: 1 was answered by a
\* sleep and a second runner invocation
C28_Witness ==
    /\ Len(obs.log) = 2 /\ Len(obs.sleeps) = 1
    /\ FirstResponse.status = Some(403)
    /\ FirstResponse.headers.retryAfter = HNum(1)

\* the wait the headers of the first response ask for: retry-after when it
\* is a number, else max(0, x-ratelimit-reset - now) when that is a number,
\* else none
PriorityWait ==
    LET h == FirstResponse.headers
    IN  IF h.retryAfter.p = "num" THEN Some(h.retryAfter.n)
        ELSE IF h.reset.p = "num" THEN Some(Max(0, h.reset.n - now))
        ELSE Null

\* the first response was parsed and signals rate limiting
FirstRateLimited ==
    /\ obs.log # <<>> /\ ~IsFatal(ResultOf(1)) /\ ~ParsedOf(1).threw
    /\ FirstIsRateLimitSignal

\* C29: wait-time priority: on a rate-limited first response the wait is
\* the retry-after value when it is a number, otherwise max(0, reset epoch
\* - now epoch) (slept up to maxBackoffSeconds, and not at all when it is
\* 0), and a second runner invocation follows; when neither header is a
\* number, the first response is returned as it is, with no sleep and no
\* second runner invocation.
C29_WaitTimePriority ==
    FirstRateLimited =>
        IF PriorityWait = Null
        THEN /\ Len(obs.log) = 1 /\ obs.sleeps = <<>>
             /\ obs.returned = Some(ParsedOf(1))
        ELSE LET wait == Min(PriorityWait[1], maxBackoffSeconds)
             IN  /\ obs.sleeps = IF wait > 0 THEN <<[ms |-> wait * 1000, after |-> 1]>>
                                  ELSE <<>>
                 /\ Len(obs.log) = 2 \/ (pc = "running" /\ call.attempt = 1)

\* the build has invoked the client operation for the number
CalledFor(op, n) == \E i \in 1..Len(build.calls) : build.calls[i] = [op |-> op, number |-> n]

\* the numbers classified unknown so far
Unknowns == {n \in DOMAIN build.kindCache : build.kindCache[n] = "unknown"}

\* an edge of the graph starts or ends at a node of the number
EdgeAt(n) ==
    \E i \in 1..Len(build.graph.edges) :
        {build.graph.edges[i].from, build.graph.edges[i].to}
            \cap {issueNodeId(n), prNodeId(n)} # {}

\* the number is a PR on other grounds than a classification: it is the
\* root PR, or the timeline of an issue names it as a closing or
\* cross-referencing PR within the budget
KnownPr(n) ==
    \/ n = build.prNumber
    \/ \E i \in 1..Len(build.graph.edges) :
          /\ build.graph.edges[i].to = prNodeId(n)
          /\ build.graph.edges[i].type \in {"closed_by", "cross_referenced_by"}

\* C30 (as stated): a referenced number whose getIssue payload is missing
\* is classified unknown: it has no node and no edge, and no timeline, PR
\* or comment fetch is ever issued for it (the root PR's own number apart).
C30_UnknownHasNothing ==
    \A n \in Unknowns \ {build.prNumber} :
        /\ ~HasNode(build.graph, issueNodeId(n)) /\ ~HasNode(build.graph, prNodeId(n))
        /\ ~EdgeAt(n)
        /\ \A op \in {"getIssueTimeline", "getPR", "listPRComments"} : ~CalledFor(op, n)

\* the reference to an unknown number has added nothing: the number has no
\* issue node, no references edge points to it and no timeline was fetched
\* for it; it has a PR node, edges, and a PR and comment fetch only as a
\* known PR
UnknownsAddNothing ==
    \A n \in Unknowns :
        /\ ~HasNode(build.graph, issueNodeId(n))
        /\ ~CalledFor("getIssueTimeline", n)
        /\ \A i \in 1..Len(build.graph.edges) :
              /\ build.graph.edges[i].from # issueNodeId(n)
              /\ build.graph.edges[i].to # issueNodeId(n)
              /\ build.graph.edges[i].to = prNodeId(n)
                    => build.graph.edges[i].type # "references"
        /\ ~KnownPr(n) =>
              /\ ~HasNode(build.graph, prNodeId(n)) /\ ~EdgeAt(n)
              /\ ~CalledFor("getPR", n) /\ ~CalledFor("listPRComments", n)

\* C30 (amended): a getIssue payload that is null or no object classifies
\* the number as unknown and the build goes on. After every step of a build
\* the reference to an unknown number has added nothing: the number has no
\* issue node, no references edge points to it and no timeline is fetched
\* for it; it has a PR node, edges, and a PR and comment fetch only as the
\* root PR or as a closing or cross-referencing PR of an issue's timeline.
C30_UnknownNotExpanded ==
    /\ [][UnknownsAddNothing']_vars
    /\ [][(Returned /\ build.inflight[1].op = "getIssue" /\ build'.got.t # "obj")
             => /\ build.inflight[1].number \in DOMAIN build'.kindCache
                /\ build'.kindCache[build.inflight[1].number] = "unknown"
                /\ build'.pc \in Suspended \cup {"done"}]_vars

\* a returned graph of a build that met a missing payload: the root PR
\* references a number, getIssue had no payload for it, and the graph holds
\* the root node alone
C30_Witness ==
    /\ build.pc = "done"
    /\ \E n \in Numbers :
          /\ build.layer1 = <<n>> /\ n \in Unknowns /\ ~KnownPr(n)
          /\ CalledFor("getIssue", n)
          /\ DOMAIN build.graph.nodes = {build.graph.rootId}
          /\ build.graph.edges = <<>>

\* how often the build has invoked the client operation for the number
TimesCalled(op, n) ==
    Cardinality({i \in 1..Len(build.calls) : build.calls[i] = [op |-> op, number |-> n]})

\* getIssue was invoked at most once for a number; a number has a kind
\* exactly when its getIssue call has returned; and every list a number
\* was sorted into is the list of its kind
ClassifiedOnce ==
    /\ \A n \in Numbers :
          /\ TimesCalled("getIssue", n) <= 1
          /\ n \in DOMAIN build.kindCache =>
                (TimesCalled("getIssue", n) = 1
                 /\ [op |-> "getIssue", number |-> n] \notin Elements(build.inflight))
    /\ \A n \in Elements(build.layer1Issues) \cup Elements(build.layer2Issues) :
          n \in DOMAIN build.kindCache /\ build.kindCache[n] = "issue"
    /\ \A n \in Elements(build.layer1PRs) \cup Elements(build.layer2PRs) :
          n \in DOMAIN build.kindCache /\ build.kindCache[n] = "pr"

\* C31: classification is memoized per build: within one build getIssue is
\* invoked at most once per distinct number, however often the number is
\* referenced across layer 1 and layer 2; the kind of a number, once set,
\* stays, and every use of the number sees it; a build starts with an
\* empty classification cache.
C31_MemoizedPerBuild ==
    /\ [][ClassifiedOnce']_vars
    /\ [][\A n \in DOMAIN build.kindCache :
             n \in DOMAIN build'.kindCache /\ build'.kindCache[n] = build.kindCache[n]]_vars
    /\ [][build.pc = "idle" => build'.kindCache = EmptyMap]_vars

\* a returned graph in which a PR that closes the layer-1 issue references
\* that issue again: two references edges to the issue, one getIssue call
C31_Witness ==
    /\ build.pc = "done"
    /\ \E n, p \in Numbers :
          /\ p # build.prNumber
          /\ HasEdge(build, build.graph.rootId, issueNodeId(n), "references")
          /\ HasEdge(build, prNodeId(p), issueNodeId(n), "references")
          /\ TimesCalled("getIssue", n) = 1

\* the k smallest numbers of a set (all of them when it has fewer)
Smallest(S, k) == {x \in S : Cardinality({y \in S : y < x}) < k}

\* the PR numbers a timeline names in events of the type
PrsOf(timeline, typename) ==
    {timeline[i].number :
        i \in {j \in 1..Len(timeline) :
                 timeline[j].typename = typename /\ timeline[j].of = "PullRequest"}}

\* the edges a step has added
Added == SubSeq(build'.graph.edges, Len(build.graph.edges) + 1, Len(build'.graph.edges))

\* the step is the return of the timeline of issueNum, visited with cap m:
\* what it adds
VisitAdds(issueNum, m) ==
    LET closing == Smallest(PrsOf(build'.got, "ClosedEvent"), m)
        cross == Smallest(PrsOf(build'.got, "CrossReferencedEvent"),
                          m - Cardinality(closing))
    IN  /\ Len(Added) = Cardinality(closing) + Cardinality(cross)
        /\ Len(Added) <= m
        /\ \A i \in 1..Len(Added) :
              /\ Added[i].from = issueNodeId(issueNum)
              /\ i <= Cardinality(closing) =>
                    (Added[i].type = "closed_by" /\ Added[i].to \in {prNodeId(n) : n \in closing})
              /\ i > Cardinality(closing) =>
                    (Added[i].type = "cross_referenced_by"
                     /\ Added[i].to \in {prNodeId(n) : n \in cross})
        /\ \A i, j \in 1..Len(Added) :
              (i < j /\ Added[i].type = Added[j].type) => Added[i].to[2] < Added[j].to[2]

TimelinePrsOf(issues) ==
    {n \in Numbers :
        \E a \in Elements(issues), t \in {"closed_by", "cross_referenced_by"} :
            HasEdge(build, issueNodeId(a), prNodeId(n), t)}

\* the PRs that are expanded: the root and those of the layer-1 timelines
Expanded == {build.prNumber} \cup Elements(build.layer1IssueRelatedPRs)

\* the PRs that are only known: classified as a PR in layer 1 or layer 2, or
\* named by the timeline of a layer-2 issue, and not expanded
OnlyKnownPrs ==
    (Elements(build.layer1PRs) \cup Elements(build.layer2PRs)
        \cup TimelinePrsOf(build.layer2Issues)) \ Expanded

\* C33: expansion stops after layer 2: getPR and listPRComments are invoked
\* only for the root PR and for PR numbers taken within budget from the
\* timelines of layer-1 issues; a number that was merely classified as a PR
\* and a PR that only the timeline of a layer-2 issue names are never
\* fetched, and in the returned graph they are stub nodes without metadata.
C33_ExpansionStops ==
    /\ \A i \in 1..Len(build.calls) :
          build.calls[i].op \in {"getPR", "listPRComments"}
              => build.calls[i].number \in Expanded
    /\ Elements(build.layer1IssueRelatedPRs) \subseteq TimelinePrsOf(build.layer1Issues)
    /\ build.pc # "idle" =>
          Len(build.layer1IssueRelatedPRs)
              <= Len(build.layer1Issues) * build.graph.budgets.maxClosingPrsPerIssue
    /\ \A n \in OnlyKnownPrs :
          /\ TimesCalled("getPR", n) = 0 /\ TimesCalled("listPRComments", n) = 0
          /\ build.pc = "done" =>
                /\ HasNode(build.graph, prNodeId(n))
                /\ build.graph.nodes[prNodeId(n)].type = "pr"
                /\ \A f \in MetaFields : build.graph.nodes[prNodeId(n)][f] = NoValue

\* a returned graph in which the root references a PR: the PR was never
\* fetched and is a stub, beside the root node and its metadata
C33_Witness ==
    /\ build.pc = "done"
    /\ \E n \in Numbers :
          /\ build.layer1PRs = <<n>> /\ n \in OnlyKnownPrs
          /\ HasEdge(build, build.graph.rootId, prNodeId(n), "references")
          /\ build.graph.nodes[prNodeId(n)].title = NoValue
          /\ build.graph.nodes[build.graph.rootId].title # NoValue
          /\ TimesCalled("getPR", n) = 0

\* the numbers of the list rise strictly
Rising(arr) == \A i, j \in 1..Len(arr) : i < j => arr[i] < arr[j]

\* the numbers the build has invoked the operation for, in the order of
\* the calls, from the from-th call on
RECURSIVE CallOrder(_, _)
CallOrder(op, from) ==
    IF from > Len(build.calls) THEN <<>>
    ELSE (IF build.calls[from].op = op THEN <<build.calls[from].number>> ELSE <<>>)
             \o CallOrder(op, from + 1)

\* C34: ascending processing order: every list of numbers the builder
\* iterates over - the layer-1 references, the layer-1-derived PRs that get
\* fetched, a PR's layer-2 references and the layer-2 issues - is in
\* ascending numeric order, so the PR fetches that follow the root's are
\* issued in ascending order of number.
C34_AscendingOrder ==
    /\ Rising(build.layer1) /\ Rising(build.refs)
    /\ Rising(build.layer1IssueRelatedPRs)
    /\ Rising(build.layer2Issues)
    /\ Rising(CallOrder("getPR", 3))

\* the text before / after the blank line at piece i of a stdout
Before(raw, i) ==
    SubSeq(raw, 1, i - 1) \o (IF raw[i] = "CRLF" /\ raw[i + 1] = "LF" THEN <<"CR">> ELSE <<>>)
After(raw, i) == SubSeq(raw, i + 2, Len(raw))

\* the first line of a text
RECURSIVE FirstLine(_)
FirstLine(text) ==
    IF text = <<>> \/ Head(text) \in {"LF", "CRLF"} THEN <<>>
    ELSE <<Head(text)>> \o FirstLine(Tail(text))

\* C35: HTTP response parsing: for every stdout the header block is the
\* text before the first blank-line boundary (whichever of LF LF and CRLF
\* CRLF occurs first) and the body is the text after it; the status is the
\* number in the status line (null if none), header names are lower-cased,
\* and an empty or whitespace-only body decodes to null.
C35_SplitAtFirstBlankLine ==
    http.done =>
        LET first == BoundaryFirst(http.raw)
            header == Before(http.raw, first)
            body == IF first = 0 THEN http.raw ELSE After(http.raw, first)
        IN  /\ http.parsed.bodyText = body
            /\ http.parsed.status =
                  (IF first # 0 /\ Includes(FirstLine(header), "S") THEN Some(200) ELSE Null)
            /\ \A key \in http.parsed.headers : ~Includes(key, "S") /\ ~Includes(key, "H")
            /\ (\A i \in 1..Len(body) : body[i] \in {"w", "LF", "CRLF"})
                  => http.parsed.body = "null"

\* the edges of the graph
Edges == {build.graph.edges[i] : i \in 1..Len(build.graph.edges)}

\* the key a node is to be stored under: its id function applied to its number
NodeKey(node) ==
    IF node.type = "issue" THEN issueNodeId(node.number) ELSE prNodeId(node.number)

\* C36: graph referential integrity: in every returned graph, rootId is a
\* key of nodes, the from and the to of every edge are keys of nodes, and
\* every node is stored under the key built from its own type and number.
C36_ReferentialIntegrity ==
    build.pc = "done" =>
        /\ build.graph.rootId \in DOMAIN build.graph.nodes
        /\ \A e \in Edges : e.from \in DOMAIN build.graph.nodes
                              /\ e.to \in DOMAIN build.graph.nodes
        /\ \A id \in DOMAIN build.graph.nodes :
              /\ build.graph.nodes[id].type \in {"pr", "issue"}
              /\ build.graph.nodes[id].id = id
              /\ NodeKey(build.graph.nodes[id]) = id

\* a graph is returned with a timeline edge to a PR that is known from the
\* timeline only, and with a references edge of layer 2
C36_Witness ==
    /\ build.pc = "done"
    /\ \E e \in Edges : /\ e.type \in {"closed_by", "cross_referenced_by"}
                         /\ e.to # build.graph.rootId
                         /\ \A r \in Edges : r.type = "references" => r.to # e.to
    /\ \E e \in Edges : e.type = "references" /\ e.from # build.graph.rootId

\* the type of the node an edge end names
TypeAt(id) == build.graph.nodes[id].type

\* C37: edge typing: in every returned graph each edge is a references, a
\* closed_by or a cross_referenced_by edge; a references edge starts at a pr
\* node; a closed_by and a cross_referenced_by edge goes from an issue node
\* to a pr node.
C37_EdgeTyping ==
    build.pc = "done" =>
        \A e \in Edges :
            /\ e.type \in {"references", "closed_by", "cross_referenced_by"}
            /\ e.from \in DOMAIN build.graph.nodes /\ e.to \in DOMAIN build.graph.nodes
            /\ e.type = "references" => TypeAt(e.from) = "pr"
            /\ e.type # "references" => TypeAt(e.from) = "issue" /\ TypeAt(e.to) = "pr"

\* a graph is returned with edges of the three types, one of the references
\* edges from a PR other than the root to an issue
C37_Witness ==
    /\ build.pc = "done"
    /\ \E e \in Edges : e.type = "closed_by"
    /\ \E e \in Edges : e.type = "cross_referenced_by"
    /\ \E e \in Edges : /\ e.type = "references" /\ e.from # build.graph.rootId
                         /\ TypeAt(e.to) = "issue"

\* the call in progress or just ended was made with useCache = false
OptedOut == call.op # "none" /\ ~call.useCache

\* C38: cache opt-out leaves the cache untouched: a client call with
\* useCache = false neither reads nor writes the cache: no step of it is
\* served from the cache, it ends only after it has invoked the runner, and
\* every cache entry, the one of its own key included, is after each of its
\* steps what it was before.
C38_OptOutLeavesCache ==
    [][OptedOut' => /\ cache' = cache
                    /\ writer' = writer
                    /\ obs'.hits = <<>>
                    /\ pc' = "idle" => obs'.fetched]_vars

\* a call with useCache = false has returned a value from the runner while
\* the cache holds a fresh, readable entry under its own key, which is still
\* as the call found it
C38_Witness ==
    /\ pc = "idle" /\ OptedOut /\ result.status = "ok" /\ obs.fetched
    /\ Truthy(readJsonCache(cache, KeyOf(call), cacheTtlSeconds, now))
    /\ ~EntryChanged

\* the page handed to the paginator announces a further page: a rel="next"
\* link (REST), hasNextPage with an endCursor (GraphQL)
AnnouncesNext ==
    IF call.stage = "graphql" THEN NextCursor(LastContainer) # Null
    ELSE NextUrl(obs.returned[1].headers) # Null

\* the list a call fetches last has had its 200th page fetched well, and
\* that page announces a further one
CapReached ==
    /\ call.stage \in {"reviewComments", "search", "graphql"}
    /\ pc = "idle" /\ Len(obs.visited) = MaxPages
    /\ obs.returned # Null /\ ~TransportError
    /\ ~StatusOrErrorsFailure /\ ~WrongRestShape
    /\ AnnouncesNext

\* what a paginator stores for the list it has gathered
Gathered ==
    IF call.stage = "search" THEN WithItems(call.firstPage[1], call.out)
    ELSE JArr(call.out)

\* C39: the page cap is silent: when a paginated call has fetched its 200th
\* page while that page still announces a next page, no error is raised:
\* the call returns the items of the 200 pages as a successful result and,
\* with useCache, the cache holds that incomplete list.
C39_PageCapSilent ==
    CapReached =>
        /\ result.status = "ok"
        /\ Len(call.out) = MaxPages
        /\ \A i \in 1..MaxPages :
              <<call.out[i]>> = PageItems(call.stage, call.arg, obs.visited[i])
        /\ CASE call.stage = "reviewComments" -> result.value.reviewComments = call.out
             [] OTHER -> result.value = JArr(call.out)
        /\ call.useCache =>
              /\ EntryChanged
              /\ readJsonCache(cache, KeyOf(call), cacheTtlSeconds, now) = Gathered

\* a cached fetch of review comments over a link cycle ended at the cap
C39_Witness ==
    /\ CapReached /\ call.useCache /\ call.stage = "reviewComments"
    /\ Len(result.value.reviewComments) = MaxPages

\* the response handed to the request helper has no status: the stdout has
\* no blank line, or its first line holds no HTTP status
NoStatus == obs.returned # Null /\ obs.returned[1].status = Null

\* the runs of the request observed that came to be parsed
ParsedRuns == {i \in 1..Len(obs.log) : LoopPass(ResultOf(i), i - 1, call.stage, now).k # "throw"}

\* C40: an unparseable status is treated as success: a response whose
\* status is null is never raised as an HTTP error and never treated as
\* rate-limited (it is returned from the run that got it, whatever its
\* headers, and no run follows it); getPR and getIssue return its decoded
\* body as a successful result and, with useCache, store it.
C40_NoStatusIsSuccess ==
    /\ \A i \in ParsedRuns :
          ParsedOf(i).status = Null
              => i = Len(obs.log) /\ obs.returned = Some(ParsedOf(i))
    /\ NoStatus =>
          /\ result.error \notin {"GitHub API error", "GitHub GraphQL error"}
          /\ call.stage = "rest" =>
                /\ pc = "idle" /\ result.status = "ok"
                /\ result.value = obs.returned[1].body
                /\ call.useCache =>
                      Entry(cache, KeyOf(call))
                        = Some([text |-> JsonStringify(obs.returned[1].body), mtime |-> now])

\* getPR with useCache got a stdout without a blank line, and one whose
\* first line holds no status while its headers tell of an exhausted quota
C40_Witness ==
    /\ NoStatus /\ call.op = "getPR" /\ call.useCache /\ result.status = "ok"
    /\ ResultOf(1).stdout.head = Null
    /\ result.value # JNull

C40_WitnessHeaders ==
    /\ NoStatus /\ result.status = "ok"
    /\ obs.returned[1].headers.remaining = HNum(0)

====
